---- MODULE Spec2Model ----
(***************************************************************************)
(* Event-sourced double-entry ledger (ledger-system/app): the transfer     *)
(* pipeline validate -> open txn -> funds check -> append events ->        *)
(* project balances -> commit, run by concurrent tasks against one         *)
(* PostgreSQL database (READ COMMITTED, row locks taken by the upsert).    *)
(***************************************************************************)
EXTENDS Integers, Sequences, FiniteSets, Bags, TLC

\* ---------------------------------------------------------------- bounds
NumAccounts == 2
NumTasks == 2
MaxTransactions == 2

AccountIds == 1..NumAccounts
Tasks == 1..NumTasks
Currencies == {"USD", "EUR"}
\* the concurrent ledger is explored with accounts of one currency
AccountCurrencies == {"USD"}
Amounts == {1}
\* reconciliation engine: concurrent callers of run, runs started, external
\* transactions loaded by all runs together, calls made by the scheduler, days
NumRunners == 2
MaxRuns == 2
MaxRows == 2
MaxCalls == 2
MaxDay == 2
Runners == 1..NumRunners
Days == 1..MaxDay
SourceNames == {"csv", "ftp"}

\* ------------------------------------------------------------- constants
\* config.py: max_transaction_amount (amounts are counted in whole units)
max_transaction_amount == 1000000
\* balances.version of a freshly inserted row (column default)
DefaultVersion == 0
\* recon_engine/config.py: scheduler_hour; the hours of a day are 1..LastHour
\* recon_settings (config.py): the tolerance of the timestamps in seconds,
\* the weights of the fuzzy score in tenths and the smallest score that is a
\* match. Scores are exact fractions: ScoreUnit stands for 1.0 in a
\* similarity, MatchUnit for 1.0 in a match_score. For the txns below the
\* floats of the code compare with each other and with min_match_score as
\* these fractions do.
ScoreUnit == 5400
MatchUnit == 10 * ScoreUnit
timestamp_tolerance_seconds == 300
fuzzy_weights == [amount |-> 4, timestamp |-> 3, metadata |-> 3]
min_match_score == (8 * MatchUnit) \div 10

\* the txns put to the matchers: one external txn "T1" in USD at BaseTime,
\* and up to MaxLedger ledger txns in the order of their timestamps
MaxLedger == 2
BaseTime == 4000
NoId == 0
ExternalAmounts == {-100, 100}
LedgerAmounts == {100, 101}
LedgerCurrencies == {"USD", "EUR"}
LedgerTimes == {BaseTime - 300, BaseTime, BaseTime + 301, BaseTime + 3001}
\* one run of the engine from source rows to journal: up to MaxExternal rows of
\* the source and up to MaxTransfers transfers in the ledger of the date
MaxExternal == 2
MaxTransfers == 1

scheduler_hour == 2
LastHour == 3
\* config.py: allow_overdraft when the environment does not set it
default_allow_overdraft == FALSE

VARIABLES
    allow_overdraft,  \* settings.allow_overdraft, read once at process start
    accounts,         \* table accounts: id -> [currency]
    balances,         \* table balances (committed rows): account_id -> row
    ledger_events,    \* table ledger_events (committed rows)
    uuids,            \* number of transaction ids drawn by uuid4()
    task,             \* per task: position in the call and its locals
    scenario,         \* the test or seed script being replayed, and its results
    pair,             \* two transfers raced against each other, and their results
    recon_jobs,       \* table recon_jobs: set of rows
    recon_logs,       \* table recon_logs: bag of rows
    runs,             \* per caller of ReconEngine.run: position in the call and its locals
    scheduler,        \* ReconScheduler: its fields, its settings and the calls it made
    matching,         \* one external txn put to the matchers, and what they returned
    clock             \* datetime.now(), counted in calls of run

vars == <<allow_overdraft, accounts, balances, ledger_events, uuids, task, scenario, pair,
          recon_jobs, recon_logs, runs, scheduler, clock, matching>>

\* the state of the ledger service and the state of the reconciliation engine
ledger == <<allow_overdraft, accounts, balances, ledger_events, uuids, task, scenario, pair>>
recon == <<recon_jobs, recon_logs, runs, scheduler, clock, matching>>

\* ------------------------------------------------------------ data types
NoReq == [source_account_id |-> 0, destination_account_id |-> 0,
          amount |-> 0, currency |-> ""]
NoResult == [kind |-> "none", errors |-> <<>>, transaction_id |-> 0, account_id |-> 0]
Failure(errs) == [NoResult EXCEPT !.kind = "failure", !.errors = errs]
Success(tid) == [NoResult EXCEPT !.kind = "success", !.transaction_id = tid]
Created(a) == [NoResult EXCEPT !.kind = "account", !.account_id = a]
Raised == [NoResult EXCEPT !.kind = "exception"]

IdleTask == [pc |-> "idle", req |-> NoReq, transaction_id |-> 0, events |-> <<>>,
             updates |-> <<>>, writes |-> <<>>, account |-> 0, result |-> NoResult]

\* the call is back at its caller with result r; its other locals are gone
Returned(req, r) == [IdleTask EXCEPT !.pc = "done", !.req = req, !.result = r]

NoScenario == [name |-> "none", step |-> 0, results |-> <<>>]
NoPair == [phase |-> "none", balances |-> <<>>, ledger_events |-> {},
           req |-> <<NoReq, NoReq>>, started |-> <<FALSE, FALSE>>,
           res |-> <<NoResult, NoResult>>]

\* ------------------------------------------------- AccountRepository.exists
exists(accts, account_id) == account_id \in DOMAIN accts

\* ------------------------------------- CommandProcessor.validate_transfer
ErrPositive == "Amount must be positive"
ErrMax == "Amount exceeds maximum limit of 1000000.0"
ErrSame == "Source and destination accounts must be different"
ErrNoSource == "Source account does not exist"
ErrNoDest == "Destination account does not exist"
ErrSourceCurrency == "Transfer currency doesn't match source account currency"
ErrDestCurrency == "Transfer currency doesn't match destination account currency"
ErrFunds == "Insufficient funds"

\* ---------------------------------------------- the text of the messages
\* the characters of a message, for the string tests made on error lists
ErrPositiveChars ==
    <<"A", "m", "o", "u", "n", "t", " ", "m", "u", "s", "t", " ", "b", "e",
      " ", "p", "o", "s", "i", "t", "i", "v", "e">>
ErrMaxChars ==
    <<"A", "m", "o", "u", "n", "t", " ", "e", "x", "c", "e", "e", "d", "s",
      " ", "m", "a", "x", "i", "m", "u", "m", " ", "l", "i", "m", "i", "t",
      " ", "o", "f", " ", "1", "0", "0", "0", "0", "0", "0", ".", "0">>
ErrSameChars ==
    <<"S", "o", "u", "r", "c", "e", " ", "a", "n", "d", " ", "d", "e", "s",
      "t", "i", "n", "a", "t", "i", "o", "n", " ", "a", "c", "c", "o", "u",
      "n", "t", "s", " ", "m", "u", "s", "t", " ", "b", "e", " ", "d", "i",
      "f", "f", "e", "r", "e", "n", "t">>
ErrNoSourceChars ==
    <<"S", "o", "u", "r", "c", "e", " ", "a", "c", "c", "o", "u", "n", "t",
      " ", "d", "o", "e", "s", " ", "n", "o", "t", " ", "e", "x", "i", "s",
      "t">>
ErrNoDestChars ==
    <<"D", "e", "s", "t", "i", "n", "a", "t", "i", "o", "n", " ", "a", "c",
      "c", "o", "u", "n", "t", " ", "d", "o", "e", "s", " ", "n", "o", "t",
      " ", "e", "x", "i", "s", "t">>
ErrSourceCurrencyChars ==
    <<"T", "r", "a", "n", "s", "f", "e", "r", " ", "c", "u", "r", "r", "e",
      "n", "c", "y", " ", "d", "o", "e", "s", "n", "'", "t", " ", "m", "a",
      "t", "c", "h", " ", "s", "o", "u", "r", "c", "e", " ", "a", "c", "c",
      "o", "u", "n", "t", " ", "c", "u", "r", "r", "e", "n", "c", "y">>
ErrDestCurrencyChars ==
    <<"T", "r", "a", "n", "s", "f", "e", "r", " ", "c", "u", "r", "r", "e",
      "n", "c", "y", " ", "d", "o", "e", "s", "n", "'", "t", " ", "m", "a",
      "t", "c", "h", " ", "d", "e", "s", "t", "i", "n", "a", "t", "i", "o",
      "n", " ", "a", "c", "c", "o", "u", "n", "t", " ", "c", "u", "r", "r",
      "e", "n", "c", "y">>
ErrFundsChars ==
    <<"I", "n", "s", "u", "f", "f", "i", "c", "i", "e", "n", "t", " ", "f",
      "u", "n", "d", "s">>

Chars(msg) ==
    CASE msg = ErrPositive -> ErrPositiveChars
      [] msg = ErrMax -> ErrMaxChars
      [] msg = ErrSame -> ErrSameChars
      [] msg = ErrNoSource -> ErrNoSourceChars
      [] msg = ErrNoDest -> ErrNoDestChars
      [] msg = ErrSourceCurrency -> ErrSourceCurrencyChars
      [] msg = ErrDestCurrency -> ErrDestCurrencyChars
      [] msg = ErrFunds -> ErrFundsChars

UpperCase == <<"A", "B", "C", "D", "E", "F", "G", "H", "I", "J", "K", "L", "M",
               "N", "O", "P", "Q", "R", "S", "T", "U", "V", "W", "X", "Y", "Z">>
LowerCase == <<"a", "b", "c", "d", "e", "f", "g", "h", "i", "j", "k", "l", "m",
               "n", "o", "p", "q", "r", "s", "t", "u", "v", "w", "x", "y", "z">>

\* str.lower()
lower(chars) ==
    [i \in 1..Len(chars) |->
        IF \E k \in 1..Len(UpperCase) : UpperCase[k] = chars[i]
        THEN LowerCase[CHOOSE k \in 1..Len(UpperCase) : UpperCase[k] = chars[i]]
        ELSE chars[i]]

\* sub in chars
Contains(chars, sub) ==
    \E i \in 0..(Len(chars) - Len(sub)) : SubSeq(chars, i + 1, i + Len(sub)) = sub

\* only the first violated rule is reported
AppendIf_first(errors, cond, msg) == IF cond /\ errors = <<>> THEN Append(errors, msg) ELSE errors

AppendIf(errors, cond, msg) == IF cond THEN Append(errors, msg) ELSE errors

validate_transfer(transfer, accts) ==
    LET e1 == AppendIf(<<>>, transfer.amount <= 0, ErrPositive)
        e2 == AppendIf(e1, transfer.amount > max_transaction_amount, ErrMax)
        e3 == AppendIf(e2, transfer.source_account_id = transfer.destination_account_id,
                       ErrSame)
        source_exists == exists(accts, transfer.source_account_id)
        e4 == AppendIf(e3, ~source_exists, ErrNoSource)
        dest_exists == exists(accts, transfer.destination_account_id)
        e5 == AppendIf(e4, ~dest_exists, ErrNoDest)
        errors ==
            IF source_exists /\ dest_exists
            THEN LET e6 == AppendIf(e5, accts[transfer.source_account_id].currency
                                           # transfer.currency, ErrSourceCurrency)
                 IN  AppendIf(e6, accts[transfer.destination_account_id].currency
                                     # transfer.currency, ErrDestCurrency)
            ELSE e5
    IN  [valid |-> Len(errors) = 0, errors |-> errors]

\* ------------------------------ BalanceRepository.check_sufficient_funds
\* the comparison is off by one unit
check_sufficient_funds_offbyone(bal, account_id, amount) ==
    IF account_id \notin DOMAIN bal THEN FALSE
    ELSE bal[account_id].available >= amount - 1

check_sufficient_funds(bal, account_id, amount) ==
    IF account_id \notin DOMAIN bal THEN FALSE
    ELSE bal[account_id].available >= amount

\* --------------------------- CommandProcessor.validate_sufficient_funds
\* the settings flag is not consulted: the balance is always checked
validate_sufficient_funds_always(overdraft, bal, account_id, amount) ==
    check_sufficient_funds(bal, account_id, amount)

validate_sufficient_funds(overdraft, bal, account_id, amount) ==
    IF overdraft THEN TRUE ELSE check_sufficient_funds(bal, account_id, amount)

\* ------------------------------------ EventStore.create_transfer_events
\* the DEBIT row also names the destination account
debit_event_paired(transaction_id, transfer) ==
    [transaction_id |-> transaction_id, event_type |-> "DEBIT",
     source_account_id |-> transfer.source_account_id,
     destination_account_id |-> transfer.destination_account_id,
     amount |-> transfer.amount, currency |-> transfer.currency, status |-> "SETTLED"]

debit_event(transaction_id, transfer) ==
    [transaction_id |-> transaction_id, event_type |-> "DEBIT",
     source_account_id |-> transfer.source_account_id, destination_account_id |-> 0,
     amount |-> transfer.amount, currency |-> transfer.currency, status |-> "SETTLED"]

\* the CREDIT row is written with another amount than the DEBIT row
credit_event_skewed(transaction_id, transfer) ==
    [transaction_id |-> transaction_id, event_type |-> "CREDIT",
     source_account_id |-> 0, destination_account_id |-> transfer.destination_account_id,
     amount |-> transfer.amount + 1, currency |-> transfer.currency, status |-> "SETTLED"]

credit_event(transaction_id, transfer) ==
    [transaction_id |-> transaction_id, event_type |-> "CREDIT",
     source_account_id |-> 0, destination_account_id |-> transfer.destination_account_id,
     amount |-> transfer.amount, currency |-> transfer.currency, status |-> "SETTLED"]

create_transfer_events(transaction_id, transfer) ==
    <<debit_event(transaction_id, transfer), credit_event(transaction_id, transfer)>>

\* ------------------------- ProjectionEngine.project_events_to_balances
\* the delta is also booked as pending_delta
AddDelta_pending(updates, account_id, currency, delta) ==
    IF \E i \in 1..Len(updates) : updates[i].account_id = account_id
    THEN [i \in 1..Len(updates) |->
             IF updates[i].account_id = account_id
             THEN [updates[i] EXCEPT !.available_delta = @ + delta, !.pending_delta = @ + delta]
             ELSE updates[i]]
    ELSE Append(updates, [account_id |-> account_id, currency |-> currency,
                          available_delta |-> delta, pending_delta |-> delta])

\* balance_updates: the dict built by the loop, as the list of its items in
\* insertion order
AddDelta(updates, account_id, currency, delta) ==
    IF \E i \in 1..Len(updates) : updates[i].account_id = account_id
    THEN [i \in 1..Len(updates) |->
             IF updates[i].account_id = account_id
             THEN [updates[i] EXCEPT !.available_delta = @ + delta]
             ELSE updates[i]]
    ELSE Append(updates, [account_id |-> account_id, currency |-> currency,
                          available_delta |-> delta, pending_delta |-> 0])

RECURSIVE balance_updates(_, _)
balance_updates(events, acc) ==
    IF events = <<>> THEN acc
    ELSE LET event == Head(events)
             next == IF event.event_type = "DEBIT" /\ event.source_account_id # 0
                     THEN AddDelta(acc, event.source_account_id, event.currency, -event.amount)
                     ELSE IF event.event_type = "CREDIT" /\ event.destination_account_id # 0
                     THEN AddDelta(acc, event.destination_account_id, event.currency, event.amount)
                     ELSE acc
         IN  balance_updates(Tail(events), next)

\* ------------------------------------ BalanceRepository.upsert_balance
\* DO UPDATE SET available_balance = $3: the delta replaces the balance
upsert_balance_overwrite(bal, account_id, currency, available_delta, pending_delta) ==
    IF account_id \in DOMAIN bal
    THEN [bal EXCEPT ![account_id] =
             [@ EXCEPT !.available = available_delta,
                       !.pending = @ + pending_delta,
                       !.version = @ + 1]]
    ELSE (account_id :> [currency |-> currency, available |-> available_delta,
                         pending |-> pending_delta, version |-> DefaultVersion]) @@ bal

\* DO UPDATE SET without version = balances.version + 1
upsert_balance_unversioned(bal, account_id, currency, available_delta, pending_delta) ==
    IF account_id \in DOMAIN bal
    THEN [bal EXCEPT ![account_id] =
             [@ EXCEPT !.available = @ + available_delta,
                       !.pending = @ + pending_delta]]
    ELSE (account_id :> [currency |-> currency, available |-> available_delta,
                         pending |-> pending_delta, version |-> DefaultVersion]) @@ bal

upsert_balance(bal, account_id, currency, available_delta, pending_delta) ==
    IF account_id \in DOMAIN bal
    THEN [bal EXCEPT ![account_id] =
             [@ EXCEPT !.available = @ + available_delta,
                       !.pending = @ + pending_delta,
                       !.version = @ + 1]]
    ELSE (account_id :> [currency |-> currency, available |-> available_delta,
                         pending |-> pending_delta, version |-> DefaultVersion]) @@ bal

\* -------------------------------------------------- storage: row locks
\* the rows a transaction has written and not yet committed are locked by it
Locked(t) == DOMAIN task[t].writes
LockedByOther(t, a) == \E u \in Tasks \ {t} : a \in Locked(u)
\* what a statement of t's transaction reads: its own writes over the
\* committed rows
View(t) == task[t].writes @@ balances

Restrict(f, S) == [x \in S |-> f[x]]
Range(f) == {f[i] : i \in DOMAIN f}

\* t waits for a row lock that u holds
WaitsFor(t, u) ==
    /\ u # t
    /\ task[t].pc = "project"
    /\ Head(task[t].updates).account_id \in Locked(u)

RECURSIVE WaitClosure(_, _)
WaitClosure(S, n) ==
    IF n = 0 THEN S
    ELSE WaitClosure(S \cup {u \in Tasks : \E s \in S : WaitsFor(s, u)}, n - 1)

\* t is part of a cycle of waiting transactions
InDeadlock(t) ==
    t \in WaitClosure({u \in Tasks : WaitsFor(t, u)}, NumTasks)

\* ------------------------------------------- reconciliation engine: state
\* ReconStatus
RUNNING == "RUNNING"
COMPLETED == "COMPLETED"
FAILED == "FAILED"
\* None
None == "None"
\* a message is the sequence of the parts it is formatted from; no message
\* (None) is the empty sequence
NoMessage == <<>>
\* no timestamp (NULL); the clock starts at 1
NoTime == 0

\* the locals of one call of run, and what the call has done so far: log
\* rows written (logged), those with matched = true (logged_matched), rows
\* whose matching raised (raised), rows written while the job row said
\* cancelled (cancelled_rows), calls of finalize_job (finalized)
NoRun == [pc |-> "idle", job_date |-> 0, source_name |-> "", file_path |-> None,
          job_id |-> 0, external_txns |-> <<>>, total_ledger_txns |-> 0, i |-> 0,
          matched_count |-> 0, unmatched_count |-> 0,
          error |-> NoMessage, result |-> None,
          logged |-> 0, logged_matched |-> 0, raised |-> 0, cancelled_rows |-> 0,
          finalized |-> 0]

\* _get_job_key
job_key(source, run_date) == <<source, run_date>>

\* calls[k]: how often the scheduler has called run for key k
NoScheduler == [sources |-> <<>>, completed_jobs |-> {}, last_date |-> 0, today |-> 1,
                hour |-> 1, pending |-> {},
                calls |-> [k \in SourceNames \X Days |-> 0]]

\* LedgerTxn and ExternalTxn (recon_model.py). The metadata bags are known
\* by the keys the matchers read: external_txn_id in a ledger txn's bag (""
\* when the key is absent), ledger_txn_id in the external txn's bag (NoId
\* when absent). The description of the external txn is known by the set of
\* ledger ids that occur in it; the empty set is also the missing description.
NoLedgerTxn == [id |-> NoId, transaction_id |-> NoId, amount |-> 0, currency |-> "",
                timestamp |-> 0, event_type |-> "", metadata |-> [external_txn_id |-> ""]]
NoExternalTxn == [txn_id |-> "", amount |-> 0, currency |-> "", timestamp |-> 0,
                  description |-> {}, metadata |-> [ledger_txn_id |-> NoId]]
NoMatchResult == [kind |-> "none"]

\* the matchers have been given nothing
NoMatching == [pc |-> "none", external_txn |-> NoExternalTxn, ledger_txns |-> <<>>,
               exact |-> <<>>, scores |-> <<>>, fuzzy |-> NoMatchResult,
               outcome |-> NoMatchResult, other |-> NoExternalTxn, sims |-> <<>>,
               source_name |-> "", rows |-> <<>>, stored |-> <<>>,
               external_txns |-> <<>>, i |-> 0, journal |-> <<>>]

\* nothing of the reconciliation engine has run
NoRecon ==
    /\ matching = NoMatching
    /\ recon_jobs = {}
    /\ recon_logs = EmptyBag
    /\ runs = [r \in Runners |-> NoRun]
    /\ scheduler = NoScheduler
    /\ clock = 1

\* ------------------------------------------------------------------ Init
Init ==
    /\ allow_overdraft \in BOOLEAN
    /\ accounts = <<>>
    /\ balances = <<>>
    /\ ledger_events = {}
    /\ uuids = 0
    /\ task = [t \in Tasks |-> IdleTask]
    /\ scenario = NoScenario
    /\ pair = NoPair
    /\ NoRecon

Requests ==
    [source_account_id : AccountIds, destination_account_id : AccountIds,
     amount : Amounts, currency : Currencies]

\* the caller holds the result of a finished call until it takes it
Quiet == \A t \in Tasks : task[t].pc # "done"

\* --------------------------------------------- LedgerService.create_account
\* account_repo.create: the accounts row is inserted and committed on its own
\* connection; the id is generated by the server
CreateAccount(t, currency) ==
    LET id == Cardinality(DOMAIN accounts) + 1 IN
    /\ task[t].pc = "idle"
    /\ accounts' = (id :> [currency |-> currency]) @@ accounts
    /\ task' = [task EXCEPT ![t] = [IdleTask EXCEPT !.pc = "init_balance", !.account = id]]
    /\ UNCHANGED <<allow_overdraft, balances, ledger_events, uuids>>

\* the second transaction of create_account: upsert of the zero balance row,
\* committed when the block is left
InitBalance(t) ==
    LET a == task[t].account IN
    /\ task[t].pc = "init_balance"
    /\ ~LockedByOther(t, a)
    /\ balances' = upsert_balance(balances, a, accounts[a].currency, 0, 0)
    /\ task' = [task EXCEPT ![t] = Returned(NoReq, Created(a))]
    /\ UNCHANGED <<allow_overdraft, accounts, ledger_events, uuids>>

\* the storage raises in that second transaction: create_account raises
InitBalanceError(t) ==
    /\ task[t].pc = "init_balance"
    /\ task' = [task EXCEPT ![t] = Returned(NoReq, Raised)]
    /\ UNCHANGED <<allow_overdraft, accounts, balances, ledger_events, uuids>>

\* --------------------------------------------- LedgerService.transfer_funds
\* the errors of the validator are dropped and the transaction is opened
StartTransfer_unchecked(t, transfer) ==
    /\ task[t].pc = "idle"
    /\ task' = [task EXCEPT ![t] = [IdleTask EXCEPT !.pc = "funds", !.req = transfer]]
    /\ UNCHANGED <<allow_overdraft, accounts, balances, ledger_events, uuids>>

\* entry of transfer_funds and validate_transfer; on errors transfer_funds
\* returns them, otherwise the transaction is opened.  The account reads of
\* the validator are taken at one instant: accounts rows are only ever
\* inserted, never changed or deleted.
StartTransfer(t, transfer) ==
    /\ task[t].pc = "idle"
    /\ LET validation == validate_transfer(transfer, accounts) IN
       task' = [task EXCEPT ![t] =
                   IF ~validation.valid THEN Returned(transfer, Failure(validation.errors))
                   ELSE [IdleTask EXCEPT !.pc = "funds", !.req = transfer]]
    /\ UNCHANGED <<allow_overdraft, accounts, balances, ledger_events, uuids>>

\* validate_sufficient_funds inside the transaction; the early return leaves
\* the block with nothing written
FundsCheck(t) ==
    /\ task[t].pc = "funds"
    /\ LET has_funds == validate_sufficient_funds(allow_overdraft, View(t),
                             task[t].req.source_account_id, task[t].req.amount) IN
       task' = [task EXCEPT ![t] =
                   IF ~has_funds THEN Returned(task[t].req, Failure(<<ErrFunds>>))
                   ELSE [@ EXCEPT !.pc = "events"]]
    /\ UNCHANGED <<allow_overdraft, accounts, balances, ledger_events, uuids>>

\* balance_updates is kept in the engine and shared by the calls in flight:
\* the loop starts from the updates another call has not yet applied
CreateEvents_shared(t) ==
    /\ task[t].pc = "events"
    /\ uuids' = uuids + 1
    /\ LET events == create_transfer_events(uuids + 1, task[t].req)
           others == {u \in Tasks \ {t} : task[u].updates # <<>>}
           kept == IF others = {} THEN <<>> ELSE task[CHOOSE u \in others : TRUE].updates
       IN  task' = [task EXCEPT ![t] =
                       [@ EXCEPT !.pc = "project", !.transaction_id = uuids + 1,
                                 !.events = events,
                                 !.updates = balance_updates(events, kept)]]
    /\ UNCHANGED <<allow_overdraft, accounts, balances, ledger_events>>

\* create_transfer_events: uuid4(), the insert of the DEBIT row and of the
\* CREDIT row (both only in this transaction until it commits);
\* project_events_to_balances then builds its balance_updates
CreateEvents(t) ==
    /\ task[t].pc = "events"
    /\ uuids' = uuids + 1
    /\ LET events == create_transfer_events(uuids + 1, task[t].req) IN
       task' = [task EXCEPT ![t] =
                   [@ EXCEPT !.pc = "project", !.transaction_id = uuids + 1,
                             !.events = events,
                             !.updates = balance_updates(events, <<>>)]]
    /\ UNCHANGED <<allow_overdraft, accounts, balances, ledger_events>>

\* one upsert of the projection loop; it waits while another transaction
\* holds the row
Upsert(t) ==
    /\ task[t].pc = "project"
    /\ LET update == Head(task[t].updates)
           a == update.account_id
           rows == upsert_balance(View(t), a, update.currency,
                                  update.available_delta, update.pending_delta)
       IN  /\ ~LockedByOther(t, a)
           /\ task' = [task EXCEPT ![t] =
                  [@ EXCEPT !.writes = Restrict(rows, Locked(t) \cup {a}),
                            !.updates = Tail(task[t].updates),
                            !.pc = IF Tail(task[t].updates) = <<>> THEN "commit"
                                   ELSE "project"]]
    /\ UNCHANGED <<allow_overdraft, accounts, balances, ledger_events, uuids>>

\* the success result is returned and the transaction is never committed
Commit_unflushed(t) ==
    /\ task[t].pc = "commit"
    /\ task' = [task EXCEPT ![t] = Returned(task[t].req, Success(task[t].transaction_id))]
    /\ UNCHANGED <<allow_overdraft, accounts, balances, ledger_events, uuids>>

\* leaving the transaction block: commit, then the success result is returned
Commit(t) ==
    /\ task[t].pc = "commit"
    /\ balances' = View(t)
    /\ ledger_events' = ledger_events \cup Range(task[t].events)
    /\ task' = [task EXCEPT ![t] = Returned(task[t].req, Success(task[t].transaction_id))]
    /\ UNCHANGED <<allow_overdraft, accounts, uuids>>

\* the events are inserted outside the transaction and survive the rollback
DbError_leaky(t) ==
    /\ task[t].pc \in {"funds", "events", "project", "commit"}
    /\ ledger_events' = ledger_events \cup Range(task[t].events)
    /\ task' = [task EXCEPT ![t] = Returned(task[t].req, Raised)]
    /\ UNCHANGED <<allow_overdraft, accounts, balances, uuids>>

\* a statement or the commit raises: conn.transaction() rolls back and the
\* exception leaves transfer_funds
DbError(t) ==
    /\ task[t].pc \in {"funds", "events", "project", "commit"}
    /\ task' = [task EXCEPT ![t] = Returned(task[t].req, Raised)]
    /\ UNCHANGED <<allow_overdraft, accounts, balances, ledger_events, uuids>>

\* the store's deadlock detector aborts a transaction of a waiting cycle
DeadlockAbort(t) ==
    /\ InDeadlock(t)
    /\ task' = [task EXCEPT ![t] = Returned(task[t].req, Raised)]
    /\ UNCHANGED <<allow_overdraft, accounts, balances, ledger_events, uuids>>

\* the caller takes the result; the task is free for the next call
Return(t) ==
    /\ task[t].pc = "done"
    /\ task' = [task EXCEPT ![t] = IdleTask]
    /\ UNCHANGED <<allow_overdraft, accounts, balances, ledger_events, uuids>>

\* the process is restarted with another value of ALLOW_OVERDRAFT in its
\* environment; the database stays
Restart ==
    /\ \A t \in Tasks : task[t].pc = "idle"
    /\ allow_overdraft' = ~allow_overdraft
    /\ UNCHANGED <<accounts, balances, ledger_events, uuids, task>>

\* ------------------------------------------------------------ the ledger
\* any number of callers, NumTasks calls in flight at a time; a transfer is
\* accepted while the transaction ids taken and about to be taken stay within
\* MaxTransactions
Ledger == UNCHANGED <<scenario, pair, recon>>

\* the connections are interchangeable: a new call is served by the first
\* one that is free
NextFree(t) == \A u \in Tasks : u < t => task[u].pc # "idle"

Next ==
    \/ \E t \in Tasks : Return(t) /\ Ledger
    \/ \E t \in Tasks, c \in AccountCurrencies :
          /\ Quiet /\ NextFree(t)
          /\ Cardinality(DOMAIN accounts) < NumAccounts
          /\ CreateAccount(t, c) /\ Ledger
    \/ \E t \in Tasks : Quiet /\ InitBalance(t) /\ Ledger
    \/ \E t \in Tasks : Quiet /\ InitBalanceError(t) /\ Ledger
    \/ \E t \in Tasks, r \in Requests :
          /\ Quiet /\ NextFree(t)
          /\ uuids + Cardinality({u \in Tasks : task[u].pc \in {"funds", "events"}})
                < MaxTransactions
          /\ StartTransfer(t, r) /\ Ledger
    \/ \E t \in Tasks : Quiet /\ FundsCheck(t) /\ Ledger
    \/ \E t \in Tasks : Quiet /\ uuids < MaxTransactions /\ CreateEvents(t) /\ Ledger
    \/ \E t \in Tasks : Quiet /\ Upsert(t) /\ Ledger
    \/ \E t \in Tasks : Quiet /\ Commit(t) /\ Ledger
    \/ \E t \in Tasks : Quiet /\ DbError(t) /\ Ledger
    \/ \E t \in Tasks : Quiet /\ DeadlockAbort(t) /\ Ledger
    \/ Quiet /\ Restart /\ Ledger

Spec == Init /\ [][Next]_vars

\* ------------------------------------------------- validate_transfer alone
\* CommandProcessor.validate_transfer called on one request against one
\* accounts table
AccountTables == UNION {[S -> [currency : Currencies]] : S \in SUBSET AccountIds}

ValidatorRequests ==
    [source_account_id : AccountIds, destination_account_id : AccountIds,
     amount : {-1, 0, 1, max_transaction_amount, max_transaction_amount + 1},
     currency : Currencies]

InitValidator ==
    /\ allow_overdraft = default_allow_overdraft
    /\ accounts \in AccountTables
    /\ balances = <<>>
    /\ ledger_events = {}
    /\ uuids = 0
    /\ \E r \in ValidatorRequests :
          task = [t \in Tasks |-> IF t = 1 THEN [IdleTask EXCEPT !.req = r] ELSE IdleTask]
    /\ scenario = NoScenario
    /\ pair = NoPair
    /\ NoRecon

ValidateCall ==
    /\ task[1].pc = "idle"
    /\ LET v == validate_transfer(task[1].req, accounts) IN
       task' = [task EXCEPT ![1] =
                   [@ EXCEPT !.pc = "done",
                             !.result = [NoResult EXCEPT
                                            !.kind = IF v.valid THEN "valid" ELSE "invalid",
                                            !.errors = v.errors]]]
    /\ UNCHANGED <<allow_overdraft, accounts, balances, ledger_events, uuids, scenario, pair, recon>>

NextValidator == ValidateCall

SpecValidator == InitValidator /\ [][NextValidator]_vars

\* ------------------------------------------ the seed script and the tests
\* accounts in the order conftest.py and seed_script.py create them:
\* alice = 1, bob = 2, internal_float = 3
CreateCall(currency) == [op |-> "create_account", currency |-> currency, req |-> NoReq]
TransferCall(src, dst, amount) ==
    [op |-> "transfer_funds", currency |-> "",
     req |-> [source_account_id |-> src, destination_account_id |-> dst,
              amount |-> amount, currency |-> "USD"]]

test_accounts == <<CreateCall("USD"), CreateCall("USD"), CreateCall("USD")>>

Script(name) ==
    CASE name = "seed_data" ->
            test_accounts \o <<TransferCall(3, 1, 500), TransferCall(1, 2, 100),
                               TransferCall(2, 1, 50)>>
      [] name = "test_create_account" -> <<CreateCall("USD")>>
      [] name = "test_successful_transfer" ->
            test_accounts \o <<TransferCall(3, 1, 1000), TransferCall(1, 2, 100)>>
      [] name = "test_insufficient_funds" ->
            test_accounts \o <<TransferCall(1, 2, 10000)>>
      [] name = "test_invalid_transfer_same_account" ->
            test_accounts \o <<TransferCall(1, 1, 100)>>
      [] name = "test_get_account_events" ->
            test_accounts \o <<TransferCall(3, 1, 500), TransferCall(1, 2, 200),
                               TransferCall(1, 2, 100)>>

ScriptNames == {"seed_data", "test_create_account", "test_successful_transfer",
                "test_insufficient_funds", "test_invalid_transfer_same_account",
                "test_get_account_events"}

InitScenario ==
    /\ allow_overdraft \in BOOLEAN
    /\ accounts = <<>>
    /\ balances = <<>>
    /\ ledger_events = {}
    /\ uuids = 0
    /\ task = [t \in Tasks |-> IdleTask]
    /\ scenario \in [name : ScriptNames, step : {1}, results : {<<>>}]
    /\ pair = NoPair
    /\ NoRecon

Scripted == UNCHANGED <<scenario, pair, recon>>

\* the script awaits its next call
ScenarioCreate ==
    /\ scenario.step <= Len(Script(scenario.name))
    /\ LET call == Script(scenario.name)[scenario.step] IN
       call.op = "create_account" /\ CreateAccount(1, call.currency)
    /\ scenario' = [scenario EXCEPT !.step = @ + 1]
    /\ UNCHANGED <<pair, recon>>

ScenarioTransfer ==
    /\ scenario.step <= Len(Script(scenario.name))
    /\ LET call == Script(scenario.name)[scenario.step] IN
       call.op = "transfer_funds" /\ StartTransfer(1, call.req)
    /\ scenario' = [scenario EXCEPT !.step = @ + 1]
    /\ UNCHANGED <<pair, recon>>

\* the call returns to the script; an exception ends the script
ScenarioReturn ==
    /\ Return(1)
    /\ scenario' = [scenario EXCEPT
                       !.results = Append(@, task[1].result),
                       !.step = IF task[1].result.kind = "exception"
                                THEN Len(Script(scenario.name)) + 1 ELSE @]
    /\ UNCHANGED <<pair, recon>>

NextScenario ==
    \/ ScenarioCreate
    \/ ScenarioTransfer
    \/ ScenarioReturn
    \/ InitBalance(1) /\ Scripted
    \/ InitBalanceError(1) /\ Scripted
    \/ FundsCheck(1) /\ Scripted
    \/ CreateEvents(1) /\ Scripted
    \/ Upsert(1) /\ Scripted
    \/ Commit(1) /\ Scripted
    \/ DbError(1) /\ Scripted

SpecScenario == InitScenario /\ [][NextScenario]_vars

ScenarioOver(name) ==
    /\ scenario.name = name
    /\ scenario.step > Len(Script(name))
    /\ task[1].pc = "idle"
    /\ \A i \in 1..Len(scenario.results) : scenario.results[i].kind # "exception"

\* ------------------------------------------------- two transfers raced
\* a setup by one caller, then two transfers on overlapping accounts started
\* from the committed state the setup left
InitPair ==
    /\ allow_overdraft \in BOOLEAN
    /\ accounts = <<>>
    /\ balances = <<>>
    /\ ledger_events = {}
    /\ uuids = 0
    /\ task = [t \in Tasks |-> IdleTask]
    /\ scenario = NoScenario
    /\ pair = [NoPair EXCEPT !.phase = "setup"]
    /\ NoRecon

Setup == pair.phase = "setup" /\ UNCHANGED <<scenario, pair, recon>>
Race == pair.phase = "race" /\ UNCHANGED <<scenario, pair, recon>>

Overlap(r1, r2) ==
    {r1.source_account_id, r1.destination_account_id}
        \cap {r2.source_account_id, r2.destination_account_id} # {}

BeginRace(r1, r2) ==
    /\ pair.phase = "setup"
    /\ \A t \in Tasks : task[t].pc = "idle"
    /\ Overlap(r1, r2)
    /\ pair' = [pair EXCEPT !.phase = "race", !.balances = balances,
                            !.ledger_events = ledger_events, !.req = <<r1, r2>>]
    /\ UNCHANGED <<allow_overdraft, accounts, balances, ledger_events, uuids, task, scenario, recon>>

RaceStart(t) ==
    /\ pair.phase = "race"
    /\ Quiet
    /\ ~pair.started[t]
    /\ StartTransfer(t, pair.req[t])
    /\ pair' = [pair EXCEPT !.started[t] = TRUE]
    /\ UNCHANGED <<scenario, recon>>

RaceReturn(t) ==
    /\ pair.phase = "race"
    /\ Return(t)
    /\ pair' = [pair EXCEPT !.res[t] = task[t].result]
    /\ UNCHANGED <<scenario, recon>>

NextPair ==
    \/ \E c \in AccountCurrencies :
          Cardinality(DOMAIN accounts) < NumAccounts /\ CreateAccount(1, c) /\ Setup
    \/ InitBalance(1) /\ Setup
    \/ \E r \in Requests : uuids < MaxTransactions - 1 /\ StartTransfer(1, r) /\ Setup
    \/ Return(1) /\ Setup
    \/ Restart /\ Setup
    \/ \E r1, r2 \in Requests : BeginRace(r1, r2)
    \/ \E t \in {1, 2} : RaceStart(t)
    \/ \E t \in {1, 2} : RaceReturn(t)
    \/ \E t \in {1, 2} : Quiet /\ FundsCheck(t) /\ UNCHANGED <<scenario, pair, recon>>
    \/ \E t \in {1, 2} : Quiet /\ CreateEvents(t) /\ UNCHANGED <<scenario, pair, recon>>
    \/ \E t \in {1, 2} : Quiet /\ Upsert(t) /\ UNCHANGED <<scenario, pair, recon>>
    \/ \E t \in {1, 2} : Quiet /\ Commit(t) /\ UNCHANGED <<scenario, pair, recon>>
    \/ \E t \in {1, 2} : Quiet /\ DbError(t) /\ Race
    \/ \E t \in {1, 2} : Quiet /\ DeadlockAbort(t) /\ Race

SpecPair == InitPair /\ [][NextPair]_vars

\* ------------------------------- two transfers on disjoint accounts raced
\* four accounts as create_account leaves them, a setup of up to MaxSetup
\* transfers by one caller, then a transfer between accounts 1 and 2 raced
\* with a transfer between accounts 3 and 4
MaxSetup == 1
DisjointIds == 1..4

DisjointRequests(ids) ==
    [source_account_id : ids, destination_account_id : ids,
     amount : Amounts, currency : Currencies]

InitDisjoint ==
    /\ allow_overdraft \in BOOLEAN
    /\ accounts = [a \in DisjointIds |-> [currency |-> "USD"]]
    /\ balances = [a \in DisjointIds |-> [currency |-> "USD", available |-> 0,
                                           pending |-> 0, version |-> DefaultVersion]]
    /\ ledger_events = {}
    /\ uuids = 0
    /\ task = [t \in Tasks |-> IdleTask]
    /\ scenario = NoScenario
    /\ pair = [NoPair EXCEPT !.phase = "setup"]
    /\ NoRecon

BeginDisjoint(r1, r2) ==
    /\ pair.phase = "setup"
    /\ \A t \in Tasks : task[t].pc = "idle"
    /\ ~Overlap(r1, r2)
    /\ pair' = [pair EXCEPT !.phase = "race", !.balances = balances,
                            !.ledger_events = ledger_events, !.req = <<r1, r2>>]
    /\ UNCHANGED <<allow_overdraft, accounts, balances, ledger_events, uuids, task, scenario, recon>>

NextDisjoint ==
    \/ \E r \in DisjointRequests(DisjointIds) :
          /\ uuids < MaxSetup /\ r.source_account_id # r.destination_account_id
          /\ r.currency = "USD" /\ StartTransfer(1, r) /\ Setup
    \/ Return(1) /\ Setup
    \/ Restart /\ Setup
    \/ \E r1 \in DisjointRequests({1, 2}), r2 \in DisjointRequests({3, 4}) :
          BeginDisjoint(r1, r2)
    \/ \E t \in {1, 2} : RaceStart(t)
    \/ \E t \in {1, 2} : RaceReturn(t)
    \/ \E t \in {1, 2} : Quiet /\ FundsCheck(t) /\ UNCHANGED <<scenario, pair, recon>>
    \/ \E t \in {1, 2} : Quiet /\ CreateEvents(t) /\ UNCHANGED <<scenario, pair, recon>>
    \/ \E t \in {1, 2} : Quiet /\ Upsert(t) /\ UNCHANGED <<scenario, pair, recon>>
    \/ \E t \in {1, 2} : Quiet /\ Commit(t) /\ UNCHANGED <<scenario, pair, recon>>
    \/ \E t \in {1, 2} : Quiet /\ DbError(t) /\ Race

SpecDisjoint == InitDisjoint /\ [][NextDisjoint]_vars

\* transfer_funds run alone on the committed state db; raises: the storage
\* fails under it
transfer_serial(db, overdraft, accts, transfer, raises) ==
    LET v == validate_transfer(transfer, accts)
        events == create_transfer_events(db.uuids + 1, transfer)
        updates == balance_updates(events, <<>>)
        Apply[i \in 0..Len(updates)] ==
            IF i = 0 THEN db.balances
            ELSE upsert_balance(Apply[i - 1], updates[i].account_id, updates[i].currency,
                                updates[i].available_delta, updates[i].pending_delta)
    IN  IF raises THEN [db |-> db, result |-> Raised]
        ELSE IF ~v.valid THEN [db |-> db, result |-> Failure(v.errors)]
        ELSE IF ~validate_sufficient_funds(overdraft, db.balances,
                                           transfer.source_account_id, transfer.amount)
        THEN [db |-> db, result |-> Failure(<<ErrFunds>>)]
        ELSE [db |-> [balances |-> Apply[Len(updates)],
                      ledger_events |-> db.ledger_events \cup Range(events),
                      uuids |-> db.uuids + 1],
              result |-> Success(0)]

\* --------------------------------------------------------- ReconLogger
JobsWithKey(jobs, job_date, source_name) ==
    {j \in jobs : j.job_date = job_date /\ j.source_name = source_name}

\* the statement has no ON CONFLICT clause: every call inserts a row
create_job_insert(jobs, job_id, job_date, source_name, now) ==
    jobs \cup {[id |-> job_id, job_date |-> job_date, source_name |-> source_name,
                status |-> RUNNING, started_at |-> now,
                total_external_txns |-> 0, total_ledger_txns |-> 0,
                matched_count |-> 0, unmatched_count |-> 0,
                error_message |-> NoMessage, completed_at |-> NoTime]}

\* INSERT ... ON CONFLICT (job_date, source_name) DO UPDATE SET status,
\* started_at: the table after the statement
create_job(jobs, job_id, job_date, source_name, now) ==
    IF JobsWithKey(jobs, job_date, source_name) # {}
    THEN {IF j \in JobsWithKey(jobs, job_date, source_name)
          THEN [j EXCEPT !.status = RUNNING, !.started_at = now]
          ELSE j : j \in jobs}
    ELSE jobs \cup {[id |-> job_id, job_date |-> job_date, source_name |-> source_name,
                     status |-> RUNNING, started_at |-> now,
                     total_external_txns |-> 0, total_ledger_txns |-> 0,
                     matched_count |-> 0, unmatched_count |-> 0,
                     error_message |-> NoMessage, completed_at |-> NoTime]}

\* finalize_job writes only the status
finalize_job_status(jobs, job_id, matched_count, unmatched_count, total_external_txns, total_ledger_txns, status, error_message, now) ==
    {IF j.id = job_id THEN [j EXCEPT !.status = status] ELSE j : j \in jobs}

\* UPDATE recon_jobs SET ... WHERE id = $1
finalize_job(jobs, job_id, matched_count, unmatched_count, total_external_txns, total_ledger_txns, status, error_message, now) ==
    {IF j.id = job_id
     THEN [j EXCEPT !.status = status,
                    !.total_external_txns = total_external_txns,
                    !.total_ledger_txns = total_ledger_txns,
                    !.matched_count = matched_count,
                    !.unmatched_count = unmatched_count,
                    !.error_message = error_message,
                    !.completed_at = now]
     ELSE j : j \in jobs}

\* update_job_status
update_job_status(jobs, job_id, status, error_message) ==
    {IF j.id = job_id
     THEN [j EXCEPT !.status = status, !.error_message = error_message]
     ELSE j : j \in jobs}

\* log_result: unconditional INSERT into recon_logs
log_result(logs, job_date, source_name, result) ==
    logs (+) SetToBag({[recon_date |-> job_date, source_name |-> source_name,
                        external_txn_id |-> result.external_txn_id,
                        matched |-> result.matched,
                        mismatch_reason |-> result.mismatch_reason]})

CancelMessage == <<"Job cancelled by user">>

\* ---------------------------------------------------------- ReconEngine
\* binding of a call's arguments to run(self, target_date, source_name,
\* **kwargs): a required parameter given neither by position nor by name is
\* a TypeError
bind_run(positional, keywords) ==
    IF \A p \in 1..2 : p <= positional \/ <<"target_date", "source_name">>[p] \in keywords
    THEN "bound" ELSE "TypeError"

\* the txn_id columns of the files a reader can return, up to the choice of
\* the ids: read_from_content appends one ExternalTxn per row and compares no
\* txn_id with another, so a file of two rows with one txn_id is read like
\* any other
ExternalLists(longest) ==
    {[k \in 1..n |-> k] : n \in 0..longest}
        \cup (IF longest >= 2 THEN {<<1, 1>>} ELSE {})

\* _load_external_transactions: what a call can come back with
LoadOutcomes(source_name, file_path, longest) ==
    IF source_name = "csv"
    THEN IF file_path = None
         THEN {[error |-> <<"file_path required for ", source_name, " source">>, txns |-> <<>>]}
         ELSE {[error |-> NoMessage, txns |-> txns] : txns \in ExternalLists(longest)}
              \cup {[error |-> <<"Error parsing row">>, txns |-> <<>>]}
    ELSE {[error |-> <<"Unknown source: ", source_name>>, txns |-> <<>>]}

\* what matching and enriching one external txn can come back with
MatchOutcomes == {"matched", "unmatched", "throws"}
MatchError == "match failed"

MatchResult(matched, mismatch_reason, external_txn_id) ==
    [matched |-> matched, mismatch_reason |-> mismatch_reason,
     external_txn_id |-> external_txn_id]

\* the job row a call of run works on
JobOf(r) == CHOOSE j \in recon_jobs : j.id = runs[r].job_id
InFlight(r) == runs[r].pc \notin {"idle", "done"}

\* run, line 49: create_job
CreateJob(r, target_date, source_name, file_path) ==
    LET jobs == create_job(recon_jobs, Cardinality(recon_jobs) + 1, target_date,
                           source_name, clock)
        row == CHOOSE j \in JobsWithKey(jobs, target_date, source_name) : TRUE
    IN  /\ runs[r].pc = "idle"
        /\ bind_run(2, {"file_path"}) = "bound"
        /\ recon_jobs' = jobs
        /\ clock' = clock + 1
        /\ runs' = [runs EXCEPT ![r] = [NoRun EXCEPT !.pc = "load",
                                                    !.job_date = target_date,
                                                    !.source_name = source_name,
                                                    !.file_path = file_path,
                                                    !.job_id = row.id]]
        /\ UNCHANGED <<recon_logs, scheduler, matching>>

\* the external txns that the runs in flight have loaded and not yet logged
RowsAhead ==
    LET RECURSIVE Sum(_)
        Sum(R) == IF R = {} THEN 0
                  ELSE LET r == CHOOSE x \in R : TRUE IN
                       (IF runs[r].pc = "match"
                        THEN Len(runs[r].external_txns) + 1 - runs[r].i
                        ELSE Len(runs[r].external_txns)) + Sum(R \ {r})
    IN Sum(Runners)

\* how many external txns the next load may bring
RowsLeft == MaxRows - BagCardinality(recon_logs) - RowsAhead

\* a load that raises is taken for a load of nothing
Load_swallow(r, loaded) ==
    /\ runs[r].pc = "load"
    /\ loaded \in LoadOutcomes(runs[r].source_name, runs[r].file_path, RowsLeft)
    /\ runs' = [runs EXCEPT ![r] =
                   [@ EXCEPT !.pc = "match", !.i = 1,
                             !.external_txns = loaded.txns,
                             !.total_ledger_txns = Cardinality(ledger_events)]]
    /\ UNCHANGED <<recon_jobs, recon_logs, scheduler, clock, matching>>

\* run, lines 55-59: the external txns are loaded, then the ledger txns of
\* the date are read; if the load raises, the ledger is not read
Load(r, loaded) ==
    /\ runs[r].pc = "load"
    /\ loaded \in LoadOutcomes(runs[r].source_name, runs[r].file_path, RowsLeft)
    /\ runs' = [runs EXCEPT ![r] =
                   IF loaded.error # NoMessage
                   THEN [@ EXCEPT !.pc = "except", !.error = loaded.error]
                   ELSE [@ EXCEPT !.pc = "match", !.i = 1,
                                  !.external_txns = loaded.txns,
                                  !.total_ledger_txns = Cardinality(ledger_events)]]
    /\ UNCHANGED <<recon_jobs, recon_logs, scheduler, clock, matching>>

\* _match_transaction and _enhance_match_result: the result for one external
\* txn, or the failed result the handler of run builds when they raise
match_result(outcome, txn) ==
    IF outcome = "throws"
    THEN MatchResult(FALSE, <<"Processing error: ", MatchError>>, txn)
    ELSE IF outcome = "matched"
         THEN MatchResult(TRUE, NoMessage, txn)
         ELSE MatchResult(FALSE, <<"No exact match found">>, txn)

\* the job row of run r says cancelled
Cancelled(j) == j.status = FAILED /\ j.error_message = CancelMessage
JobCancelled(r) == \E j \in recon_jobs : j.id = runs[r].job_id /\ Cancelled(j)

\* what the run has done so far, after one more row
Logged(r, run, result, threw) ==
    [run EXCEPT !.logged = @ + 1,
                !.logged_matched = IF result.matched THEN @ + 1 ELSE @,
                !.raised = IF threw THEN @ + 1 ELSE @,
                !.cancelled_rows = IF JobCancelled(r) THEN @ + 1 ELSE @]

\* the error of one row ends the run
ProcessRow_abort(r, outcome) ==
    LET txn == runs[r].external_txns[runs[r].i]
        result == match_result(outcome, txn)
    IN  /\ runs[r].pc = "match"
        /\ runs[r].i <= Len(runs[r].external_txns)
        /\ recon_logs' = IF outcome = "throws" THEN recon_logs
                         ELSE log_result(recon_logs, runs[r].job_date,
                                         runs[r].source_name, result)
        /\ runs' = [runs EXCEPT ![r] =
                       IF outcome = "throws"
                       THEN [@ EXCEPT !.pc = "except", !.error = <<MatchError>>,
                                      !.raised = @ + 1]
                       ELSE Logged(r, [@ EXCEPT
                                !.i = @ + 1,
                                !.matched_count = IF result.matched THEN @ + 1 ELSE @,
                                !.unmatched_count = IF result.matched THEN @ ELSE @ + 1],
                              result, FALSE)]
        /\ UNCHANGED <<recon_jobs, scheduler, clock, matching>>

\* run, lines 67-106: one round of the loop. The external txn is matched and
\* enriched, the result logged and counted; if matching raises, the handler
\* counts the txn as unmatched and logs the failed result. The round touches
\* the storage once, in log_result.
ProcessRow(r, outcome) ==
    LET txn == runs[r].external_txns[runs[r].i]
        result == match_result(outcome, txn)
    IN  /\ runs[r].pc = "match"
        /\ runs[r].i <= Len(runs[r].external_txns)
        /\ recon_logs' = log_result(recon_logs, runs[r].job_date, runs[r].source_name, result)
        /\ runs' = [runs EXCEPT ![r] =
                       Logged(r, [@ EXCEPT
                                !.i = @ + 1,
                                !.matched_count = IF result.matched THEN @ + 1 ELSE @,
                                !.unmatched_count = IF result.matched THEN @ ELSE @ + 1],
                              result, outcome = "throws")]
        /\ UNCHANGED <<recon_jobs, scheduler, clock, matching>>

\* run, lines 109-121: the loop is over; the job is finalised and its id
\* returned
FinalizeCompleted(r) ==
    /\ runs[r].pc = "match"
    /\ runs[r].i > Len(runs[r].external_txns)
    /\ recon_jobs' = finalize_job(recon_jobs, runs[r].job_id, runs[r].matched_count,
                                  runs[r].unmatched_count, Len(runs[r].external_txns),
                                  runs[r].total_ledger_txns, COMPLETED, NoMessage, clock)
    /\ runs' = [runs EXCEPT ![r] = [@ EXCEPT !.pc = "done", !.finalized = @ + 1,
                                            !.result = [kind |-> "returned",
                                                        job_id |-> runs[r].job_id]]]
    /\ UNCHANGED <<recon_logs, scheduler, clock, matching>>

\* the error is raised again without a word to the job row
FinalizeFailed_silent(r) ==
    /\ runs[r].pc = "except"
    /\ runs' = [runs EXCEPT ![r] = [@ EXCEPT !.pc = "done",
                                            !.result = [kind |-> "raised",
                                                        error |-> runs[r].error]]]
    /\ UNCHANGED <<recon_jobs, recon_logs, scheduler, clock, matching>>

\* run, lines 123-135: the job is finalised as FAILED and the error raised
\* again
FinalizeFailed(r) ==
    /\ runs[r].pc = "except"
    /\ recon_jobs' = finalize_job(recon_jobs, runs[r].job_id, 0, 0, 0, 0, FAILED,
                                  runs[r].error, clock)
    /\ runs' = [runs EXCEPT ![r] = [@ EXCEPT !.pc = "done", !.finalized = @ + 1,
                                            !.result = [kind |-> "raised",
                                                        error |-> runs[r].error]]]
    /\ UNCHANGED <<recon_logs, scheduler, clock, matching>>

\* the caller takes the job id or the error
RunReturn(r) ==
    /\ runs[r].pc = "done"
    /\ runs' = [runs EXCEPT ![r] = NoRun]
    /\ UNCHANGED <<recon_jobs, recon_logs, scheduler, clock, matching>>

\* DELETE /recon/jobs/{job_id}
cancel_job(job_id) ==
    /\ recon_jobs' = update_job_status(recon_jobs, job_id, FAILED, CancelMessage)
    /\ UNCHANGED <<recon_logs, runs, scheduler, clock, matching>>

\* -------------------------------------------------------- ReconScheduler
\* the failed call is remembered like the successful one
run_recon_for_source_once(completed_jobs, key, outcome, returned) ==
    completed_jobs \cup {key}

\* _run_recon_for_source past its check of completed_jobs: the key is added
\* when the call of run has returned, not when it has raised
run_recon_for_source(completed_jobs, key, outcome, returned) ==
    IF outcome = "bound" /\ returned THEN completed_jobs \cup {key} ELSE completed_jobs

\* _should_run_scheduler
should_run_scheduler(current_hour) == current_hour = scheduler_hour

\* one round of the loop of start: _reset_daily_tracking, then, in the
\* scheduler hour, _run_all_sources creates one task per configured source
SchedulerLoop ==
    LET today == scheduler.today IN
    /\ scheduler.pending = {}
    /\ scheduler' =
          [scheduler EXCEPT
              !.last_date = today,
              !.completed_jobs = IF scheduler.last_date # today THEN {} ELSE @,
              !.pending = IF should_run_scheduler(scheduler.hour)
                          THEN Range(scheduler.sources) ELSE {}]
    /\ UNCHANGED <<recon_jobs, recon_logs, runs, clock, matching>>

\* the task of one source: _run_recon_for_source, which calls
\* run(date=today, source=source) unless the key is in completed_jobs
RunReconForSource(source, returned) ==
    LET key == job_key(source, scheduler.today)
        outcome == bind_run(0, {"date", "source"})
    IN  /\ source \in scheduler.pending
        /\ scheduler.calls[key] < MaxCalls
        /\ scheduler' =
              IF key \in scheduler.completed_jobs
              THEN [scheduler EXCEPT !.pending = @ \ {source}]
              ELSE [scheduler EXCEPT
                       !.pending = @ \ {source},
                       !.calls[key] = @ + 1,
                       !.completed_jobs =
                           run_recon_for_source(@, key, outcome, returned)]
        /\ UNCHANGED <<recon_jobs, recon_logs, runs, clock, matching>>

\* the hour, and at the last hour the day, passes
HourPasses ==
    /\ \/ scheduler.hour < LastHour /\ scheduler' = [scheduler EXCEPT !.hour = @ + 1]
       \/ /\ scheduler.hour = LastHour /\ scheduler.today < MaxDay
          /\ scheduler' = [scheduler EXCEPT !.hour = 1, !.today = @ + 1]
    /\ UNCHANGED <<recon_jobs, recon_logs, runs, clock, matching>>

\* ------------------------------------------- the reconciliation engine
RunDates == {1}
FilePaths == {None, "bank.csv"}

InitRecon ==
    /\ allow_overdraft = default_allow_overdraft
    /\ accounts = <<>>
    /\ balances = <<>>
    /\ ledger_events = {}
    /\ uuids = 0
    /\ task = [t \in Tasks |-> IdleTask]
    /\ scenario = NoScenario
    /\ pair = NoPair
    /\ NoRecon

\* the caller holds the job id or the error of a finished run until it takes
\* it; the callers are interchangeable, a new call is the first idle one
QuietRuns == \A r \in Runners : runs[r].pc # "done"

NextRecon ==
    \/ \E r \in Runners, d \in RunDates, src \in SourceNames, f \in FilePaths :
          /\ QuietRuns /\ clock <= MaxRuns
          /\ \A u \in Runners : u < r => runs[u].pc # "idle"
          /\ CreateJob(r, d, src, f) /\ UNCHANGED ledger
    \/ \E r \in Runners :
          \E loaded \in LoadOutcomes(runs[r].source_name, runs[r].file_path, RowsLeft) :
             QuietRuns /\ Load(r, loaded) /\ UNCHANGED ledger
    \/ \E r \in Runners, outcome \in MatchOutcomes :
          QuietRuns /\ ProcessRow(r, outcome) /\ UNCHANGED ledger
    \/ \E r \in Runners : QuietRuns /\ FinalizeCompleted(r) /\ UNCHANGED ledger
    \/ \E r \in Runners : QuietRuns /\ FinalizeFailed(r) /\ UNCHANGED ledger
    \/ \E r \in Runners : RunReturn(r) /\ UNCHANGED ledger
    \/ \E j \in recon_jobs : QuietRuns /\ cancel_job(j.id) /\ UNCHANGED ledger

SpecRecon == InitRecon /\ [][NextRecon]_vars

\* ------------------------------------------------------- the scheduler
\* recon_settings.sources as the scheduler finds it
SchedulerSources == {<<>>, <<"csv">>, <<"ftp">>, <<"csv", "ftp">>}

InitScheduler ==
    /\ allow_overdraft = default_allow_overdraft
    /\ accounts = <<>>
    /\ balances = <<>>
    /\ ledger_events = {}
    /\ uuids = 0
    /\ task = [t \in Tasks |-> IdleTask]
    /\ scenario = NoScenario
    /\ pair = NoPair
    /\ recon_jobs = {}
    /\ recon_logs = EmptyBag
    /\ runs = [r \in Runners |-> NoRun]
    /\ \E srcs \in SchedulerSources : scheduler = [NoScheduler EXCEPT !.sources = srcs]
    /\ clock = 1
    /\ matching = NoMatching

NextScheduler ==
    \/ SchedulerLoop /\ UNCHANGED ledger
    \/ \E src \in SourceNames, returned \in BOOLEAN :
          RunReconForSource(src, returned) /\ UNCHANGED ledger
    \/ HourPasses /\ UNCHANGED ledger

SpecScheduler == InitScheduler /\ [][NextScheduler]_vars

\* ------------------------------------------------------------ BaseMatcher
Abs(x) == IF x < 0 THEN -x ELSE x

\* _create_match_result; ledger_txn is NoLedgerTxn for None
create_match_result(external_txn, ledger_txn, matched, score, reason, criteria) ==
    [kind |-> "result",
     matched |-> matched,
     match_score |-> score,
     mismatch_reason |-> reason,
     ledger_txn_id |-> ledger_txn.id,
     external_txn_id |-> external_txn.txn_id,
     amount_diff |-> IF ledger_txn = NoLedgerTxn THEN 0
                     ELSE external_txn.amount - ledger_txn.amount,
     timestamp_diff_seconds |-> IF ledger_txn = NoLedgerTxn THEN 0
                                ELSE external_txn.timestamp - ledger_txn.timestamp,
     metadata |-> [external_description |-> external_txn.description,
                   ledger_event_type |-> ledger_txn.event_type,
                   match_criteria |-> criteria]]

\* an operand of a float operation is a Decimal
TypeError == [kind |-> "raise", error |-> "TypeError"]

\* ----------------------------------------------------------- ExactMatcher
\* only the ledger txn's metadata is looked at
find_exact_id_match_ledger_only(external_txn, ledger_txns) ==
    LET hits == {k \in 1..Len(ledger_txns) :
                    /\ ledger_txns[k].metadata.external_txn_id # ""
                    /\ ledger_txns[k].metadata.external_txn_id = external_txn.txn_id}
    IN  IF hits = {} THEN 0 ELSE CHOOSE k \in hits : \A h \in hits : k <= h

\* _find_exact_id_match: the place in the list of the first ledger txn that
\* names the external txn or is named by it, 0 for None
find_exact_id_match(external_txn, ledger_txns) ==
    LET hits == {k \in 1..Len(ledger_txns) :
                    \/ /\ ledger_txns[k].metadata.external_txn_id # ""
                       /\ ledger_txns[k].metadata.external_txn_id = external_txn.txn_id
                    \/ /\ external_txn.metadata.ledger_txn_id # NoId
                       /\ ledger_txns[k].id = external_txn.metadata.ledger_txn_id}
    IN  IF hits = {} THEN 0 ELSE CHOOSE k \in hits : \A h \in hits : k <= h

\* the tolerance is not applied
find_exact_amount_matches_anytime(external_txn, ledger_txns) ==
    LET same(l) == l.amount = external_txn.amount /\ l.currency = external_txn.currency
    IN  SelectSeq(ledger_txns, same)

\* _find_exact_amount_matches
find_exact_amount_matches(external_txn, ledger_txns) ==
    LET same(l) == /\ l.amount = external_txn.amount
                   /\ l.currency = external_txn.currency
                   /\ Abs(l.timestamp - external_txn.timestamp) <= timestamp_tolerance_seconds
    IN  SelectSeq(ledger_txns, same)

\* the timestamps are not compared
validate_exact_match_untimed(external_txn, ledger_txn) ==
    IF external_txn.amount # ledger_txn.amount
    THEN create_match_result(external_txn, ledger_txn, FALSE, 0,
             <<"Amount mismatch: external=", external_txn.amount,
               ", ledger=", ledger_txn.amount>>, "ExactMatcher")
    ELSE IF external_txn.currency # ledger_txn.currency
    THEN create_match_result(external_txn, ledger_txn, FALSE, 0,
             <<"Currency mismatch: external=", external_txn.currency,
               ", ledger=", ledger_txn.currency>>, "ExactMatcher")
    ELSE create_match_result(external_txn, ledger_txn, TRUE, MatchUnit, NoMessage,
                             "ExactMatcher")

\* _validate_exact_match
validate_exact_match(external_txn, ledger_txn) ==
    IF external_txn.amount # ledger_txn.amount
    THEN create_match_result(external_txn, ledger_txn, FALSE, 0,
             <<"Amount mismatch: external=", external_txn.amount,
               ", ledger=", ledger_txn.amount>>, "ExactMatcher")
    ELSE IF external_txn.currency # ledger_txn.currency
    THEN create_match_result(external_txn, ledger_txn, FALSE, 0,
             <<"Currency mismatch: external=", external_txn.currency,
               ", ledger=", ledger_txn.currency>>, "ExactMatcher")
    ELSE IF Abs(ledger_txn.timestamp - external_txn.timestamp) > timestamp_tolerance_seconds
    THEN create_match_result(external_txn, ledger_txn, FALSE, 0,
             <<"Timestamp outside tolerance: diff=",
               Abs(ledger_txn.timestamp - external_txn.timestamp), "s">>, "ExactMatcher")
    ELSE create_match_result(external_txn, ledger_txn, TRUE, MatchUnit, NoMessage,
                             "ExactMatcher")

\* ExactMatcher.match
ExactMatcher_match(external_txn, ledger_txns) ==
    LET exact_match == find_exact_id_match(external_txn, ledger_txns)
        amount_matches == find_exact_amount_matches(external_txn, ledger_txns)
    IN  IF exact_match # 0
        THEN validate_exact_match(external_txn, ledger_txns[exact_match])
        ELSE IF Len(amount_matches) = 1
        THEN validate_exact_match(external_txn, amount_matches[1])
        ELSE IF Len(amount_matches) > 1
        THEN create_match_result(external_txn, NoLedgerTxn, FALSE, 0,
                 <<"Multiple exact amount matches found">>, "ExactMatcher")
        ELSE create_match_result(external_txn, NoLedgerTxn, FALSE, 0,
                 <<"No exact match found">>, "ExactMatcher")

\* ----------------------------------------------------------- FuzzyMatcher
\* _calculate_amount_similarity. The amounts are Decimals. Equal amounts
\* score 1.0 and amounts of mean 0 score 0.0; for all others diff_percent is
\* a Decimal, and both the division by the float tolerance_percent (line 95)
\* and the subtraction from the float 1.0 (line 98) raise TypeError.
calculate_amount_similarity(external_amount, ledger_amount) ==
    IF external_amount = ledger_amount THEN [kind |-> "score", value |-> ScoreUnit]
    ELSE IF external_amount + ledger_amount = 0 THEN [kind |-> "score", value |-> 0]
    ELSE TypeError

\* _calculate_timestamp_similarity
calculate_timestamp_similarity(external_timestamp, ledger_timestamp) ==
    LET time_diff == Abs(external_timestamp - ledger_timestamp)
        tolerance == timestamp_tolerance_seconds
        max_diff == tolerance * 10
    IN  IF time_diff <= tolerance
        THEN ScoreUnit - (time_diff * ScoreUnit) \div (2 * tolerance)
        ELSE IF time_diff > max_diff THEN 0
        ELSE (ScoreUnit - ((time_diff - tolerance) * ScoreUnit) \div (max_diff - tolerance)) \div 2

\* _compare_transaction_references
compare_transaction_references(external_txn, ledger_txn) ==
    IF ledger_txn.metadata.external_txn_id # ""
       /\ ledger_txn.metadata.external_txn_id = external_txn.txn_id
    THEN ScoreUnit
    ELSE IF external_txn.metadata.ledger_txn_id # NoId
            /\ external_txn.metadata.ledger_txn_id = ledger_txn.id
    THEN ScoreUnit
    ELSE IF ledger_txn.id \in external_txn.description
            \/ ledger_txn.transaction_id \in external_txn.description
    THEN (8 * ScoreUnit) \div 10
    ELSE 0

\* nothing to compare scores nothing
calculate_metadata_similarity_zero(external_txn, ledger_txn) ==
    LET ref_similarity == compare_transaction_references(external_txn, ledger_txn)
    IN  IF ref_similarity > 0 THEN ref_similarity ELSE 0

\* _calculate_metadata_similarity. A LedgerTxn has no description and the two
\* bags have no key in common, so similarity_scores holds the reference
\* score or nothing, and the weighted mean of one score is that score.
calculate_metadata_similarity(external_txn, ledger_txn) ==
    LET ref_similarity == compare_transaction_references(external_txn, ledger_txn)
    IN  IF ref_similarity > 0
        THEN (ref_similarity * ref_similarity) \div ref_similarity
        ELSE ScoreUnit \div 2

\* _calculate_match_score
calculate_match_score(external_txn, ledger_txn) ==
    LET amount_score == calculate_amount_similarity(external_txn.amount, ledger_txn.amount)
        timestamp_score == calculate_timestamp_similarity(external_txn.timestamp,
                                                          ledger_txn.timestamp)
        metadata_score == calculate_metadata_similarity(external_txn, ledger_txn)
        currency_score == IF external_txn.currency = ledger_txn.currency THEN 1 ELSE 0
    IN  IF amount_score.kind = "raise" THEN TypeError
        ELSE [kind |-> "score",
              value |-> (amount_score.value * fuzzy_weights.amount
                         + timestamp_score * fuzzy_weights.timestamp
                         + metadata_score * fuzzy_weights.metadata)
                        * currency_score]

\* f"{best_score:.3f}": the score in thousandths
Format3(score) == (score * 1000 + MatchUnit \div 2) \div MatchUnit

\* if score >= best_score: the last ledger txn of the highest score is kept
FuzzyMatcher_match_last(external_txn, ledger_txns) ==
    LET score(k) == calculate_match_score(external_txn, ledger_txns[k])
        places == 1..Len(ledger_txns)
    IN  IF \E k \in places : score(k).kind = "raise" THEN TypeError
        ELSE LET best == {k \in places : \A h \in places : score(h).value <= score(k).value}
                 best_place == IF best = {} THEN 0
                               ELSE CHOOSE k \in best : \A h \in best : k >= h
                 best_match == IF best_place = 0 THEN NoLedgerTxn ELSE ledger_txns[best_place]
                 best_score == IF best_place = 0 THEN 0 ELSE score(best_place).value
             IN  IF best_score >= min_match_score
                 THEN create_match_result(external_txn, best_match, TRUE, best_score,
                                          NoMessage, "FuzzyMatcher")
                 ELSE create_match_result(external_txn, best_match, FALSE, best_score,
                          <<"Best match score ", Format3(best_score),
                            " below threshold ", min_match_score>>, "FuzzyMatcher")

\* FuzzyMatcher.match: the first ledger txn of the highest score above 0
FuzzyMatcher_match(external_txn, ledger_txns) ==
    LET score(k) == calculate_match_score(external_txn, ledger_txns[k])
        places == 1..Len(ledger_txns)
    IN  IF \E k \in places : score(k).kind = "raise" THEN TypeError
        ELSE LET best == {k \in places :
                            /\ score(k).value > 0
                            /\ \A h \in places : score(h).value <= score(k).value}
                 best_place == IF best = {} THEN 0
                               ELSE CHOOSE k \in best : \A h \in best : k <= h
                 best_match == IF best_place = 0 THEN NoLedgerTxn ELSE ledger_txns[best_place]
                 best_score == IF best_place = 0 THEN 0 ELSE score(best_place).value
             IN  IF best_score >= min_match_score
                 THEN create_match_result(external_txn, best_match, TRUE, best_score,
                                          NoMessage, "FuzzyMatcher")
                 ELSE create_match_result(external_txn, best_match, FALSE, best_score,
                          <<"Best match score ", Format3(best_score),
                            " below threshold ", min_match_score>>, "FuzzyMatcher")

\* ------------------------------------------- ReconEngine._match_transaction
currency_filtered(external_txn, ledger_txns) ==
    LET same(l) == l.currency = external_txn.currency
    IN  SelectSeq(ledger_txns, same)

match_transaction(external_txn, ledger_txns) ==
    LET filtered == currency_filtered(external_txn, ledger_txns)
        exact_result == ExactMatcher_match(external_txn, filtered)
        fuzzy_result == FuzzyMatcher_match(external_txn, filtered)
    IN  IF filtered = <<>>
        THEN [kind |-> "result", matched |-> FALSE, match_score |-> 0,
              mismatch_reason |-> <<"No ledger transactions found for currency ",
                                    external_txn.currency>>,
              ledger_txn_id |-> NoId, external_txn_id |-> external_txn.txn_id,
              amount_diff |-> 0, timestamp_diff_seconds |-> 0,
              metadata |-> [external_description |-> {}, ledger_event_type |-> "",
                            match_criteria |-> ""]]
        ELSE IF exact_result.matched THEN exact_result
        ELSE IF fuzzy_result.kind = "raise" THEN fuzzy_result
        ELSE IF fuzzy_result.match_score > exact_result.match_score THEN fuzzy_result
        ELSE exact_result

\* ------------------------------------------------- the matchers, called
\* the external txns and the ledger lists the matchers are given
ExternalTxns ==
    {[txn_id |-> "T1", amount |-> a, currency |-> "USD", timestamp |-> BaseTime,
      description |-> d, metadata |-> [ledger_txn_id |-> ref]] :
        a \in ExternalAmounts, d \in {{}, {1}}, ref \in {NoId, 1}}

LedgerTxnsAt(k) ==
    {[id |-> k, transaction_id |-> k + MaxLedger + 1, amount |-> a, currency |-> c,
      timestamp |-> t, event_type |-> "DEBIT", metadata |-> [external_txn_id |-> ref]] :
        a \in LedgerAmounts, c \in LedgerCurrencies, t \in LedgerTimes, ref \in {"", "T1"}}

\* get_transactions_for_date: ORDER BY timestamp ASC
RECURSIVE LedgerListsOf(_)
LedgerListsOf(n) ==
    IF n = 0 THEN {<<>>}
    ELSE {Append(l, t) : l \in LedgerListsOf(n - 1), t \in LedgerTxnsAt(n)}

LedgerLists ==
    {l \in UNION {LedgerListsOf(n) : n \in 0..MaxLedger} :
        \A k \in 1..(Len(l) - 1) : l[k].timestamp <= l[k + 1].timestamp}

InitMatcher ==
    /\ allow_overdraft = default_allow_overdraft
    /\ accounts = <<>>
    /\ balances = <<>>
    /\ ledger_events = {}
    /\ uuids = 0
    /\ task = [t \in Tasks |-> IdleTask]
    /\ scenario = NoScenario
    /\ pair = NoPair
    /\ recon_jobs = {}
    /\ recon_logs = EmptyBag
    /\ runs = [r \in Runners |-> NoRun]
    /\ scheduler = NoScheduler
    /\ clock = 1
    /\ \E e \in ExternalTxns, l \in LedgerLists :
          matching = [NoMatching EXCEPT !.pc = "exact", !.external_txn = e,
                                        !.ledger_txns = l]

\* the matched ledger txn is taken off the list
ExactMatch_consuming ==
    LET result == ExactMatcher_match(matching.external_txn, matching.ledger_txns)
        kept(l) == ~(result.matched /\ l.id = result.ledger_txn_id)
    IN  /\ matching.pc = "exact"
        /\ matching' = [matching EXCEPT
               !.exact = Append(@, result),
               !.ledger_txns = SelectSeq(@, kept),
               !.pc = IF Len(matching.exact) = 1 THEN "fuzzy" ELSE "exact"]
        /\ UNCHANGED <<ledger, recon_jobs, recon_logs, runs, scheduler, clock>>

\* ExactMatcher.match is called, twice in a row: the call reads its
\* arguments and recon_settings, and writes nothing but its result
ExactMatch ==
    /\ matching.pc = "exact"
    /\ matching' = [matching EXCEPT
           !.exact = Append(@, ExactMatcher_match(matching.external_txn,
                                                  matching.ledger_txns)),
           !.pc = IF Len(matching.exact) = 1 THEN "fuzzy" ELSE "exact"]
    /\ UNCHANGED <<ledger, recon_jobs, recon_logs, runs, scheduler, clock>>

\* FuzzyMatcher.match is called; scores holds what _calculate_match_score
\* comes to for each ledger txn
FuzzyMatch ==
    /\ matching.pc = "fuzzy"
    /\ matching' = [matching EXCEPT
           !.scores = [k \in 1..Len(matching.ledger_txns) |->
                          calculate_match_score(matching.external_txn,
                                                matching.ledger_txns[k])],
           !.fuzzy = FuzzyMatcher_match(matching.external_txn, matching.ledger_txns),
           !.pc = "cascade"]
    /\ UNCHANGED <<ledger, recon_jobs, recon_logs, runs, scheduler, clock>>

\* _match_transaction is called
MatchTransaction ==
    /\ matching.pc = "cascade"
    /\ matching' = [matching EXCEPT
           !.outcome = match_transaction(matching.external_txn, matching.ledger_txns),
           !.pc = "compare"]
    /\ UNCHANGED <<ledger, recon_jobs, recon_logs, runs, scheduler, clock>>

\* the similarities of the external txn and of another external txn to the
\* first ledger txn: amount, then timestamp
Similarities(external_txn, ledger_txn) ==
    [amount |-> calculate_amount_similarity(external_txn.amount, ledger_txn.amount),
     timestamp |-> calculate_timestamp_similarity(external_txn.timestamp,
                                                  ledger_txn.timestamp)]

OtherAmounts == {100, 101}
OtherTimes == {BaseTime, BaseTime + 100}

CompareSimilarities(amount, timestamp) ==
    LET other == [matching.external_txn EXCEPT !.amount = amount, !.timestamp = timestamp]
    IN  /\ matching.pc = "compare"
        /\ matching.ledger_txns # <<>>
        /\ matching' = [matching EXCEPT
               !.other = other,
               !.sims = <<Similarities(matching.external_txn, matching.ledger_txns[1]),
                          Similarities(other, matching.ledger_txns[1])>>,
               !.pc = "end"]
        /\ UNCHANGED <<ledger, recon_jobs, recon_logs, runs, scheduler, clock>>

NextMatcher ==
    \/ ExactMatch
    \/ FuzzyMatch
    \/ MatchTransaction
    \/ \E a \in OtherAmounts, t \in OtherTimes : CompareSimilarities(a, t)

SpecMatcher == InitMatcher /\ [][NextMatcher]_vars

\* ------------------------------------------------------ the source loaders
\* the text of a field is the sequence of its characters
DigitChars == {"0", "1", "2", "3", "4", "5", "6", "7", "8", "9"}

DigitValue(c) ==
    CASE c = "0" -> 0 [] c = "1" -> 1 [] c = "2" -> 2 [] c = "3" -> 3 [] c = "4" -> 4
      [] c = "5" -> 5 [] c = "6" -> 6 [] c = "7" -> 7 [] c = "8" -> 8 [] c = "9" -> 9

\* str.strip()
RECURSIVE strip(_)
strip(chars) ==
    IF chars = <<>> THEN chars
    ELSE IF Head(chars) = " " THEN strip(Tail(chars))
    ELSE IF chars[Len(chars)] = " " THEN strip(SubSeq(chars, 1, Len(chars) - 1))
    ELSE chars

\* str.replace(old, '')
replace(chars, old) ==
    LET kept(c) == c # old IN SelectSeq(chars, kept)

\* str.upper() of a currency field
upper(text) ==
    CASE text = "usd" -> "USD" [] text = "eur" -> "EUR" [] OTHER -> text

\* the parse of a row raises: _parse_row wraps every exception in ValueError
ValueError == [kind |-> "raise", error |-> "ValueError"]

RECURSIVE DecimalDigits(_)
DecimalDigits(digits) ==
    IF digits = <<>> THEN 0
    ELSE 10 * DecimalDigits(SubSeq(digits, 1, Len(digits) - 1)) + DigitValue(digits[Len(digits)])

\* Decimal(text): blanks around the number are dropped, a sign may lead, the
\* rest must be digits (the texts drawn hold whole numbers); anything else
\* is decimal.InvalidOperation
Decimal(chars) ==
    LET text == strip(chars)
        signed == text # <<>> /\ Head(text) \in {"-", "+"}
        digits == IF signed THEN Tail(text) ELSE text
    IN  IF digits = <<>> \/ \E k \in 1..Len(digits) : digits[k] \notin DigitChars
        THEN ValueError
        ELSE [kind |-> "decimal",
              value |-> IF signed /\ Head(text) = "-" THEN -DecimalDigits(digits)
                        ELSE DecimalDigits(digits)]

\* the amount text of CSVReader._parse_row and BankCSVReader._parse_row
amount_str(row) == replace(replace(strip(row.amount), "$"), ",")

\* CSVReader._parse_row
CSVReader_parse_row(row) ==
    LET amount == Decimal(amount_str(row))
    IN  IF amount.kind = "raise" THEN ValueError
        ELSE [kind |-> "txn",
              txn |-> [txn_id |-> row.txn_id, amount |-> amount.value,
                       currency |-> upper(row.currency), timestamp |-> row.timestamp,
                       description |-> {},
                       metadata |-> [ledger_txn_id |-> row.ledger_txn_id]]]

\* BankCSVReader._parse_row
BankCSVReader_parse_row(row) ==
    LET amount == Decimal(amount_str(row))
    IN  IF amount.kind = "raise" THEN ValueError
        ELSE [kind |-> "txn",
              txn |-> [txn_id |-> row.txn_id, amount |-> Abs(amount.value),
                       currency |-> upper(row.currency), timestamp |-> row.timestamp,
                       description |-> {},
                       metadata |-> [ledger_txn_id |-> NoId]]]

\* APIAdapter._parse_api_transaction
parse_api_transaction(txn_data) ==
    LET amount == Decimal(txn_data.amount)
    IN  IF amount.kind = "raise" THEN ValueError
        ELSE [kind |-> "txn",
              txn |-> [txn_id |-> txn_data.txn_id, amount |-> amount.value,
                       currency |-> upper(txn_data.currency),
                       timestamp |-> txn_data.timestamp, description |-> {},
                       metadata |-> [ledger_txn_id |-> txn_data.ledger_txn_id]]]

\* PaymentProcessorAdapter._parse_settlement
parse_settlement(settlement_data) ==
    LET amount == Decimal(settlement_data.amount)
    IN  IF amount.kind = "raise" THEN ValueError
        ELSE [kind |-> "txn",
              txn |-> [txn_id |-> settlement_data.txn_id, amount |-> amount.value,
                       currency |-> upper(settlement_data.currency),
                       timestamp |-> settlement_data.timestamp, description |-> {},
                       metadata |-> [ledger_txn_id |-> NoId]]]

parse(source_name, row) ==
    CASE source_name = "csv" -> CSVReader_parse_row(row)
      [] source_name = "bank_csv" -> BankCSVReader_parse_row(row)
      [] source_name = "api" -> parse_api_transaction(row)
      [] source_name = "payment_processor" -> parse_settlement(row)

\* _load_external_transactions: every row of the source is parsed, in
\* order; one row that does not parse fails the load
load_external_transactions(source_name, rows) ==
    IF \E k \in 1..Len(rows) : parse(source_name, rows[k]).kind = "raise"
    THEN ValueError
    ELSE [kind |-> "txns",
          txns |-> [k \in 1..Len(rows) |-> parse(source_name, rows[k]).txn]]

\* ----------------------------------- LedgerReader.get_transactions_for_date
\* one LedgerTxn per row of ledger_events, whatever its event_type
LedgerTxn(row) ==
    [id |-> row.id, transaction_id |-> row.transaction_id, amount |-> row.amount,
     currency |-> row.currency, timestamp |-> row.timestamp,
     event_type |-> row.event_type, metadata |-> [external_txn_id |-> ""]]

\* ORDER BY timestamp ASC: the orders of the rows the query may return
get_transactions_for_date(stored) ==
    {[k \in 1..Len(stored) |-> LedgerTxn(stored[p[k]])] :
        p \in {q \in [1..Len(stored) -> 1..Len(stored)] :
                 /\ \A j, k \in 1..Len(stored) : j # k => q[j] # q[k]
                 /\ \A k \in 1..(Len(stored) - 1) :
                       stored[q[k]].timestamp <= stored[q[k + 1]].timestamp}}

\* ------------------------------------------ one run, from rows to journal
LoaderNames == {"csv", "bank_csv", "api", "payment_processor"}

AmountTexts ==
    {<<"1", "0", "0">>, <<"-", "1", "0", "0">>, <<"0">>,
     <<" ", "$", "1", "0", "0">>, <<"1", "0", "1">>, <<"n", "/", "a">>}

RawRowsAt(k) ==
    {[txn_id |-> IF k = 1 THEN "T1" ELSE IF k = 2 THEN "T2" ELSE "T3",
      amount |-> a, currency |-> "usd", timestamp |-> t, ledger_txn_id |-> NoId] :
        a \in AmountTexts, t \in {BaseTime, BaseTime + 100}}

RECURSIVE RawListsOf(_)
RawListsOf(n) ==
    IF n = 0 THEN {<<>>}
    ELSE {Append(l, row) : l \in RawListsOf(n - 1), row \in RawRowsAt(n)}

\* the ledger_events rows of transfer number k, as transfer_funds commits
\* them: the DEBIT row, then the CREDIT row, with the ids and the timestamp
\* the table gives them
StoredPair(k, timestamp) ==
    LET events == create_transfer_events(k,
                      [source_account_id |-> 1, destination_account_id |-> 2,
                       amount |-> 100, currency |-> "USD"])
    IN  <<[id |-> 2 * k - 1, timestamp |-> timestamp] @@ events[1],
          [id |-> 2 * k, timestamp |-> timestamp] @@ events[2]>>

RECURSIVE StoredListsOf(_)
StoredListsOf(n) ==
    IF n = 0 THEN {<<>>}
    ELSE {l \o StoredPair(n, t) : l \in StoredListsOf(n - 1),
                                   t \in {BaseTime, BaseTime + 301}}

InitPipeline ==
    /\ allow_overdraft = default_allow_overdraft
    /\ accounts = <<>>
    /\ balances = <<>>
    /\ uuids = 0
    /\ task = [t \in Tasks |-> IdleTask]
    /\ scenario = NoScenario
    /\ pair = NoPair
    /\ recon_jobs = {}
    /\ recon_logs = EmptyBag
    /\ runs = [r \in Runners |-> NoRun]
    /\ scheduler = NoScheduler
    /\ clock = 1
    /\ \E source_name \in LoaderNames,
          rows \in UNION {RawListsOf(n) : n \in 0..MaxExternal},
          stored \in UNION {StoredListsOf(n) : n \in 0..MaxTransfers} :
          /\ ledger_events = {[f \in DOMAIN stored[k] \ {"id", "timestamp"} |-> stored[k][f]] :
                                 k \in 1..Len(stored)}
          /\ matching = [NoMatching EXCEPT !.pc = "load", !.source_name = source_name,
                                           !.rows = rows, !.stored = stored]

PipelineFrame ==
    UNCHANGED <<ledger, recon_jobs, recon_logs, runs, scheduler, clock>>

\* run, line 55: the load; a load that raises ends the run
LoadExternal ==
    LET loaded == load_external_transactions(matching.source_name, matching.rows)
    IN  /\ matching.pc = "load"
        /\ matching' = IF loaded.kind = "raise" THEN [matching EXCEPT !.pc = "failed"]
                       ELSE [matching EXCEPT !.pc = "ledger", !.external_txns = loaded.txns]
        /\ PipelineFrame

\* run, line 59
ReadLedger ==
    /\ matching.pc = "ledger"
    /\ \E ledger_txns \in get_transactions_for_date(matching.stored) :
          matching' = [matching EXCEPT !.pc = "rows", !.ledger_txns = ledger_txns]
    /\ PipelineFrame

\* run, lines 67-106: the next external txn is matched and its result is
\* written to recon_logs; a matcher that raises leaves the row of a failed
\* result
MatchRow ==
    LET external_txn == matching.external_txns[matching.i + 1]
        result == match_transaction(external_txn, matching.ledger_txns)
        logged == IF result.kind = "raise"
                  THEN [kind |-> "result", matched |-> FALSE, match_score |-> 0,
                        mismatch_reason |-> <<"Processing error: ", result.error>>,
                        ledger_txn_id |-> NoId, external_txn_id |-> external_txn.txn_id,
                        amount_diff |-> 0, timestamp_diff_seconds |-> 0,
                        metadata |-> [external_description |-> {}, ledger_event_type |-> "",
                                      match_criteria |-> ""]]
                  ELSE result
    IN  /\ matching.pc = "rows"
        /\ matching.i < Len(matching.external_txns)
        /\ matching' = [matching EXCEPT !.external_txn = external_txn,
                                        !.outcome = logged,
                                        !.journal = Append(@, logged),
                                        !.i = @ + 1]
        /\ PipelineFrame

\* run, lines 109-121: the rows are done
EndRows ==
    /\ matching.pc = "rows"
    /\ matching.i = Len(matching.external_txns)
    /\ matching' = [matching EXCEPT !.pc = "completed"]
    /\ PipelineFrame

NextPipeline ==
    \/ LoadExternal
    \/ ReadLedger
    \/ MatchRow
    \/ EndRows

SpecPipeline == InitPipeline /\ [][NextPipeline]_vars

\* ======================================================== properties
RECURSIVE SumAmounts(_)
SumAmounts(S) ==
    IF S = {} THEN 0
    ELSE LET e == CHOOSE x \in S : TRUE IN e.amount + SumAmounts(S \ {e})

EventsOf(events, tid) == {e \in events : e.transaction_id = tid}
Available(bal, a) == IF a \in DOMAIN bal THEN bal[a].available ELSE 0
IsTransfer(t) == task[t].req # NoReq

\* C1 Conservation: for every transaction_id in the committed event log and
\* every currency, the CREDIT amounts of the transaction sum to the same
\* value as its DEBIT amounts.
C1_Conservation ==
    \A tid \in {e.transaction_id : e \in ledger_events} :
        \A c \in {e.currency : e \in ledger_events} :
            SumAmounts({e \in EventsOf(ledger_events, tid) :
                           e.event_type = "CREDIT" /\ e.currency = c})
            = SumAmounts({e \in EventsOf(ledger_events, tid) :
                           e.event_type = "DEBIT" /\ e.currency = c})

\* two committed transactions are in the log
C1_Witness ==
    \E e1, e2 \in ledger_events :
        /\ e1.transaction_id # e2.transaction_id
        /\ e1.event_type = "CREDIT" /\ e2.event_type = "DEBIT"

\* C2 Balance projection law: in every committed state the available amount
\* of every balance row equals the SETTLED credits to the account minus the
\* SETTLED debits from it.
C2_ProjectionLaw ==
    \A a \in DOMAIN balances :
        balances[a].available =
            SumAmounts({e \in ledger_events : e.status = "SETTLED" /\ e.event_type = "CREDIT"
                                              /\ e.destination_account_id = a})
            - SumAmounts({e \in ledger_events : e.status = "SETTLED" /\ e.event_type = "DEBIT"
                                                /\ e.source_account_id = a})

\* an account's balance row has been updated by two committed transfers and
\* holds the sum of both
C2_Witness ==
    \E a \in DOMAIN balances :
        /\ Cardinality({e.transaction_id : e \in
               {x \in ledger_events : \/ (x.event_type = "CREDIT" /\ x.destination_account_id = a)
                                      \/ (x.event_type = "DEBIT" /\ x.source_account_id = a)}}) >= 2
        /\ balances[a].available \notin {-1, 0, 1}

\* C3 Atomicity: a step in which a transfer fails (result failure or a raised
\* error) leaves the event log and every balance row as they were and no
\* event carries the transfer's transaction_id; a step that adds events of a
\* transfer adds exactly its DEBIT/CREDIT pair, moves the amount from the
\* source's to the destination's available and reports success.
C3_Step(t) ==
    LET r == task[t].req
        tid == task[t].transaction_id
        fails == /\ IsTransfer(t) /\ task[t].pc # "done" /\ task'[t].pc = "done"
                 /\ task'[t].result.kind \in {"failure", "exception"}
        writes == /\ IsTransfer(t) /\ tid # 0
                  /\ EventsOf(ledger_events', tid) # EventsOf(ledger_events, tid)
    IN  /\ fails => /\ ledger_events' = ledger_events
                     /\ balances' = balances
                     /\ tid # 0 => EventsOf(ledger_events', tid) = {}
        /\ writes => /\ EventsOf(ledger_events, tid) = {}
                      /\ \E d, c \in EventsOf(ledger_events', tid) :
                            /\ EventsOf(ledger_events', tid) = {d, c}
                            /\ d.event_type = "DEBIT" /\ d.source_account_id = r.source_account_id
                            /\ c.event_type = "CREDIT"
                            /\ c.destination_account_id = r.destination_account_id
                            /\ d.amount = r.amount /\ c.amount = r.amount
                      /\ Available(balances', r.source_account_id)
                           = Available(balances, r.source_account_id) - r.amount
                      /\ Available(balances', r.destination_account_id)
                           = Available(balances, r.destination_account_id) + r.amount
                      /\ task'[t].result.kind = "success"
        /\ (IsTransfer(t) /\ task[t].pc # "done" /\ task'[t].pc = "done"
              /\ task'[t].result.kind = "success")
             => EventsOf(ledger_events', tid) # EventsOf(ledger_events, tid)

C3_Atomicity == [][\A t \in Tasks : C3_Step(t)]_vars

\* a transfer has raised after its events were appended: its transaction_id
\* was drawn and belongs to no call in flight
C3_Witness ==
    \E t \in Tasks :
        /\ task[t].pc = "done" /\ IsTransfer(t) /\ task[t].result.kind = "exception"
        /\ \E tid \in 1..uuids :
              /\ EventsOf(ledger_events, tid) = {}
              /\ \A u \in Tasks : task[u].transaction_id # tid
        /\ ledger_events # {}

\* C6 Insufficient funds: when allow_overdraft is false and the funds check
\* reads an available balance below the requested amount, the transfer
\* returns success=false with errors exactly ["Insufficient funds"], and the
\* event log and the balance rows are unchanged.
C6_Step(t) ==
    LET src == task[t].req.source_account_id IN
    (/\ task[t].pc = "funds" /\ ~allow_overdraft
     /\ src \in DOMAIN balances /\ balances[src].available < task[t].req.amount
     /\ task'[t] # task[t]
     /\ task'[t].result.kind # "exception")
    => /\ task'[t].pc = "done"
       /\ task'[t].result.kind = "failure"
       /\ task'[t].result.errors = <<"Insufficient funds">>
       /\ ledger_events' = ledger_events
       /\ balances' = balances

C6_InsufficientFunds == [][\A t \in Tasks : C6_Step(t)]_vars

\* a transfer was refused for lack of funds while the ledger held events
C6_Witness ==
    \E t \in Tasks :
        /\ task[t].pc = "done" /\ task[t].result.errors = <<"Insufficient funds">>
        /\ ~allow_overdraft
        /\ task[t].req.source_account_id \in DOMAIN balances
        /\ balances[task[t].req.source_account_id].available < task[t].req.amount
        /\ ledger_events # {}

\* C8 Validation failure: when the validator reports errors for a request,
\* the transfer returns success=false with exactly those errors, no storage
\* transaction is opened (the call never gets to the funds check and holds
\* no row), and the event log and all balance rows, version included, are
\* unchanged.
C8_Step(t) ==
    (/\ task[t].pc = "idle" /\ task'[t].pc # "idle" /\ task'[t].req # NoReq
     /\ validate_transfer(task'[t].req, accounts).errors # <<>>)
    => /\ task'[t].pc = "done"
       /\ task'[t].result.kind = "failure"
       /\ task'[t].result.errors = validate_transfer(task'[t].req, accounts).errors
       /\ task'[t].writes = <<>> /\ task'[t].events = <<>>
       /\ ledger_events' = ledger_events
       /\ balances' = balances
       /\ uuids' = uuids

C8_ValidationFailure == [][\A t \in Tasks : C8_Step(t)]_vars

\* a request was refused by the validator while the ledger held events
C8_Witness ==
    \E t \in Tasks :
        /\ task[t].pc = "done" /\ task[t].result.kind = "failure"
        /\ task[t].result.errors # <<"Insufficient funds">>
        /\ Len(task[t].result.errors) >= 2
        /\ ledger_events # {}

\* C9 Same account: a transfer whose source and destination are the same
\* existing account returns success=false and one of its error strings
\* contains "same" when lower-cased.
C9_SameAccount ==
    \A t \in Tasks :
        (/\ task[t].pc = "done" /\ IsTransfer(t)
         /\ task[t].req.source_account_id = task[t].req.destination_account_id
         /\ task[t].req.source_account_id \in DOMAIN accounts)
        => /\ task[t].result.kind = "failure"
           /\ \E i \in 1..Len(task[t].result.errors) :
                 Contains(lower(Chars(task[t].result.errors[i])), <<"s", "a", "m", "e">>)
\* C4 No overdraft: while allow_overdraft is false, no step takes the
\* committed available of an account from a non-negative value to a negative
\* one, whatever the interleaving of the transfers debiting it.
C4_NoOverdraft ==
    [][\A a \in DOMAIN balances :
          (~allow_overdraft /\ balances[a].available >= 0) => balances'[a].available >= 0]_vars

\* C5 Serial equivalence: when two transfers touching an overlapping account
\* have both returned, their two results, the balance rows and the events
\* they added are what running the two transfers one after the other, in one
\* of the two orders, produces from the state they started from.
Plain(r) == [r EXCEPT !.transaction_id = 0]
Shape(e) == [e EXCEPT !.transaction_id = 0]
Shapes(events) ==
    {<<sh, Cardinality({e \in events : Shape(e) = sh})>> : sh \in {Shape(e) : e \in events}}

SerialOutcome(first, second, raises1, raises2) ==
    LET db0 == [balances |-> pair.balances, ledger_events |-> pair.ledger_events,
                uuids |-> uuids]
        run1 == transfer_serial(db0, allow_overdraft, accounts, pair.req[first], raises1)
        run2 == transfer_serial(run1.db, allow_overdraft, accounts, pair.req[second], raises2)
    IN  [results |-> [t \in {first, second} |->
                         IF t = first THEN Plain(run1.result) ELSE Plain(run2.result)],
         balances |-> run2.db.balances,
         events |-> Shapes(run2.db.ledger_events \ pair.ledger_events)]

C5_SerialEquivalence ==
    (pair.phase = "race" /\ pair.res[1].kind # "none" /\ pair.res[2].kind # "none")
    => [results |-> [t \in {1, 2} |-> Plain(pair.res[t])],
        balances |-> balances,
        events |-> Shapes(ledger_events \ pair.ledger_events)]
       \in {SerialOutcome(o[1], o[2], f1, f2) :
               o \in {<<1, 2>>, <<2, 1>>}, f1 \in BOOLEAN, f2 \in BOOLEAN}

\* C7 Validation rules accumulate: the error list of validate_transfer holds
\* an error of a rule exactly when the request violates the rule (amount > 0,
\* amount <= max_transaction_amount, source # destination, source exists,
\* destination exists, and, when both exist, the currency of each equals the
\* request's), no message twice, and valid is true exactly when the list is
\* empty.
C7_RulesAccumulate ==
    task[1].result.kind \in {"valid", "invalid"} =>
        LET r == task[1].req
            errs == Range(task[1].result.errors)
            src == r.source_account_id
            dst == r.destination_account_id
            both == src \in DOMAIN accounts /\ dst \in DOMAIN accounts
        IN  /\ ("Amount must be positive" \in errs) <=> ~(r.amount > 0)
            /\ ("Amount exceeds maximum limit of 1000000.0" \in errs) <=> ~(r.amount <= 1000000)
            /\ ("Source and destination accounts must be different" \in errs) <=> (src = dst)
            /\ ("Source account does not exist" \in errs) <=> (src \notin DOMAIN accounts)
            /\ ("Destination account does not exist" \in errs) <=> (dst \notin DOMAIN accounts)
            /\ (\/ "Transfer currency doesn't match source account currency" \in errs
                \/ "Transfer currency doesn't match destination account currency" \in errs)
               <=> (both /\ ~(accounts[src].currency = r.currency
                               /\ r.currency = accounts[dst].currency))
            /\ Cardinality(errs) = Len(task[1].result.errors)
            /\ (task[1].result.kind = "valid") <=> (task[1].result.errors = <<>>)

\* a request that breaks three rules at once got three errors
C7_Witness ==
    /\ task[1].result.kind = "invalid"
    /\ task[1].req.amount > 1000000
    /\ task[1].req.source_account_id = task[1].req.destination_account_id
    /\ task[1].req.source_account_id \in DOMAIN accounts
    /\ accounts[task[1].req.source_account_id].currency # task[1].req.currency
    /\ Len(task[1].result.errors) >= 3

\* C10 Scenario S1 under the default settings: once seed_data has run its
\* three transfers, all three succeeded, the available balances are
\* Alice = 450, Bob = 50, Float = -500, and the log holds six events under
\* three transaction_ids, each a DEBIT/CREDIT pair.
C10_ScenarioS1 ==
    (ScenarioOver("seed_data") /\ allow_overdraft = default_allow_overdraft)
    => /\ \A i \in 4..6 : scenario.results[i].kind = "success"
       /\ balances[1].available = 450
       /\ balances[2].available = 50
       /\ balances[3].available = -500
       /\ Cardinality(ledger_events) = 6
       /\ Cardinality({e.transaction_id : e \in ledger_events}) = 3
       /\ \A tid \in {e.transaction_id : e \in ledger_events} :
             {e.event_type : e \in EventsOf(ledger_events, tid)} = {"DEBIT", "CREDIT"}

\* C11 Account and balance together: in every reachable state every account
\* row has its balance row, whatever a concurrent reader or transfer observes
\* and whatever fails between the two writes.
C11_AccountHasBalance == \A a \in DOMAIN accounts : a \in DOMAIN balances

\* C12 Initial balance: the step in which create_account returns the account
\* leaves one balance row for it, with the account's currency, available 0,
\* pending 0 and version 0.
C12_Step(t) ==
    (task[t].pc # "done" /\ task'[t].pc = "done" /\ task'[t].result.kind = "account")
        => LET a == task'[t].result.account_id IN
           /\ a \in DOMAIN accounts'
           /\ a \in DOMAIN balances'
           /\ balances'[a] = [currency |-> accounts'[a].currency, available |-> 0,
                              pending |-> 0, version |-> 0]

C12_InitialBalance == [][\A t \in Tasks : C12_Step(t)]_vars

\* C13 Event pair: the step in which a transfer returns success adds exactly
\* two events with one transaction_id that no earlier event carries, both
\* SETTLED with the transfer's amount and currency, a DEBIT naming only the
\* source and a CREDIT naming only the destination; every event of the log
\* has one of these two shapes.
EventShape(e) ==
    /\ e.status = "SETTLED"
    /\ \/ e.event_type = "DEBIT" /\ e.source_account_id # 0 /\ e.destination_account_id = 0
       \/ e.event_type = "CREDIT" /\ e.destination_account_id # 0 /\ e.source_account_id = 0

C13_Step(t) ==
    (IsTransfer(t) /\ task[t].pc # "done" /\ task'[t].pc = "done"
       /\ task'[t].result.kind = "success")
        => LET r == task[t].req
               tid == task'[t].result.transaction_id
               new == ledger_events' \ ledger_events
           IN  /\ EventsOf(ledger_events, tid) = {}
               /\ Cardinality(new) = 2
               /\ \A e \in new : /\ e.transaction_id = tid
                                  /\ e.amount = r.amount /\ e.currency = r.currency
                                  /\ e.status = "SETTLED"
               /\ \E d, c \in new :
                     /\ d.event_type = "DEBIT" /\ d.source_account_id = r.source_account_id
                     /\ d.destination_account_id = 0
                     /\ c.event_type = "CREDIT"
                     /\ c.destination_account_id = r.destination_account_id
                     /\ c.source_account_id = 0

C13_EventPair ==
    [][(\A t \in Tasks : C13_Step(t)) /\ (\A e \in ledger_events' : EventShape(e))]_vars

\* a second transfer has returned success on a log that held the first pair
C13_Witness ==
    \E t \in Tasks :
        /\ task[t].pc = "done" /\ task[t].result.kind = "success"
        /\ Cardinality(ledger_events) = 4
        /\ Cardinality({e.transaction_id : e \in ledger_events}) = 2

\* C14 Job uniqueness: no two rows of recon_jobs share (job_date,
\* source_name), whatever the interleaving of the runs; a run for a key that
\* has a row adds no row, gets the id of that row, and leaves the row RUNNING
\* with a started_at later than the one it had.
UniqueJobKey(jobs) ==
    \A j1, j2 \in jobs :
        (j1.job_date = j2.job_date /\ j1.source_name = j2.source_name) => j1 = j2

C14_Step(r) ==
    (runs[r].pc = "idle" /\ runs'[r].pc = "load")
        => LET old == JobsWithKey(recon_jobs, runs'[r].job_date, runs'[r].source_name)
               new == JobsWithKey(recon_jobs', runs'[r].job_date, runs'[r].source_name)
           IN  old # {} =>
                 /\ Cardinality(recon_jobs') = Cardinality(recon_jobs)
                 /\ \E j \in old :
                       /\ runs'[r].job_id = j.id
                       /\ new = {[j EXCEPT !.status = RUNNING, !.started_at = clock]}
                       /\ clock > j.started_at

C14_JobUniqueness ==
    [][UniqueJobKey(recon_jobs') /\ (\A r \in Runners : C14_Step(r))]_vars

\* two runs are in flight on the one row of their key
C14_Witness ==
    \E r1, r2 \in Runners :
        /\ r1 # r2 /\ InFlight(r1) /\ InFlight(r2)
        /\ runs[r1].job_id = runs[r2].job_id
        /\ Cardinality(recon_jobs) = 1

\* C15 Job lifecycle: the first step of a run leaves its job RUNNING; the step
\* in which run returns or raises is the run's one call of finalize_job and
\* leaves the job COMPLETED with totals and completed_at (return) or FAILED
\* with error_message set (raise); a job is RUNNING only while a run of it is
\* in flight.
C15_Step(r) ==
    /\ (runs[r].pc = "idle" /\ runs'[r].pc = "load")
          => \E j \in recon_jobs' : j.id = runs'[r].job_id /\ j.status = RUNNING
    /\ (runs[r].pc # "done" /\ runs'[r].pc = "done")
          => /\ runs'[r].finalized = 1
             /\ \E j \in recon_jobs' :
                   /\ j.id = runs[r].job_id
                   /\ IF runs'[r].result.kind = "returned"
                      THEN /\ j.status = COMPLETED /\ j.completed_at # NoTime
                           /\ j.total_external_txns = Len(runs[r].external_txns)
                           /\ j.matched_count = runs[r].matched_count
                           /\ j.unmatched_count = runs[r].unmatched_count
                      ELSE /\ j.status = FAILED /\ j.error_message # NoMessage

C16_Step(r) ==
    (runs[r].pc # "done" /\ runs'[r].pc = "done" /\ runs'[r].result.kind = "returned")
        => /\ \E j \in recon_jobs' :
                 /\ j.id = runs[r].job_id
                 /\ j.status = COMPLETED
                 /\ j.total_external_txns = Len(runs[r].external_txns)
                 /\ j.matched_count + j.unmatched_count = j.total_external_txns
                 /\ j.matched_count = runs[r].logged_matched
           /\ runs[r].logged = Len(runs[r].external_txns)
           /\ \A k \in 1..Len(runs[r].external_txns) :
                 \E row \in BagToSet(recon_logs') :
                    /\ row.recon_date = runs[r].job_date
                    /\ row.source_name = runs[r].source_name
                    /\ row.external_txn_id = runs[r].external_txns[k]

C16_Tally == [][\A r \in Runners : C16_Step(r)]_vars

\* a run of two external txns has completed with one matched and one not
C16_Witness ==
    \E r \in Runners :
        /\ runs[r].pc = "done" /\ runs[r].result.kind = "returned"
        /\ Len(runs[r].external_txns) = 2
        /\ \E j \in recon_jobs : /\ j.id = runs[r].job_id /\ j.status = COMPLETED
                                 /\ j.matched_count = 1 /\ j.unmatched_count = 1

\* C17 Per-row containment: a round of the loop in which matching raises logs
\* the row unmatched with reason "Processing error: <msg>", counts it as
\* unmatched and goes on to the next external txn; a run that has loaded its
\* external txns never fails, and ends with its job COMPLETED.
C17_Step(r) ==
    /\ (runs'[r].raised = runs[r].raised + 1)
          => /\ recon_logs' = recon_logs (+) SetToBag({
                    [recon_date |-> runs[r].job_date, source_name |-> runs[r].source_name,
                     external_txn_id |-> runs[r].external_txns[runs[r].i],
                     matched |-> FALSE,
                     mismatch_reason |-> <<"Processing error: ", MatchError>>]})
             /\ runs'[r].unmatched_count = runs[r].unmatched_count + 1
             /\ runs'[r].matched_count = runs[r].matched_count
             /\ runs'[r].pc = "match" /\ runs'[r].i = runs[r].i + 1
    /\ (runs[r].pc = "match" /\ runs'[r].pc # "match")
          => /\ runs'[r].pc = "done" /\ runs'[r].result.kind = "returned"
             /\ \E j \in recon_jobs' : j.id = runs[r].job_id /\ j.status = COMPLETED

C18_Step(r) ==
    /\ (runs[r].pc = "load" /\ runs'[r].pc = "except")
          => /\ runs'[r].error # NoMessage
             /\ recon_logs' = recon_logs /\ recon_jobs' = recon_jobs
    /\ (runs[r].pc = "except" /\ runs'[r].pc # "except")
          => /\ runs'[r].pc = "done"
             /\ runs'[r].result = [kind |-> "raised", error |-> runs[r].error]
             /\ runs[r].logged = 0
             /\ recon_logs' = recon_logs
             /\ \E j \in recon_jobs' :
                   /\ j.id = runs[r].job_id
                   /\ j.status = FAILED
                   /\ j.error_message = runs[r].error /\ j.error_message # NoMessage
                   /\ j.matched_count = 0 /\ j.unmatched_count = 0
    /\ (runs[r].pc = "load" /\ (runs[r].source_name \notin {"csv"} \/ runs[r].file_path = None))
          => runs'[r].pc \in {"load", "except"}

C19_Cancellation ==
    [][/\ \A r \in Runners : runs'[r].cancelled_rows <= 1
       /\ \A j \in recon_jobs : Cancelled(j) =>
             \A j2 \in recon_jobs' : j2.id = j.id => j2.status # COMPLETED]_vars

C21_Step(r) ==
    (runs'[r].logged = runs[r].logged + 1)
        => \A k \in 1..(runs[r].i - 1) :
              runs[r].external_txns[k] # runs[r].external_txns[runs[r].i]

C21_OneLogPerTxn == [][\A r \in Runners : C21_Step(r)]_vars

\* C22 Matcher cascade: the outcome of _match_transaction is the result of
\* ExactMatcher on the ledger txns of the external txn's currency if that
\* result is a match; otherwise FuzzyMatcher returns a result on the same
\* list and the outcome is the fuzzy result if its match_score is the higher
\* one, the exact result if not.
C22_Cascade ==
    matching.outcome # NoMatchResult
        => LET filtered == currency_filtered(matching.external_txn, matching.ledger_txns)
               exact_result == ExactMatcher_match(matching.external_txn, filtered)
               fuzzy_result == FuzzyMatcher_match(matching.external_txn, filtered)
           IN  IF exact_result.matched
               THEN matching.outcome = exact_result /\ exact_result.match_score = MatchUnit
               ELSE /\ fuzzy_result.kind = "result"
                    /\ matching.outcome =
                          IF fuzzy_result.match_score > exact_result.match_score
                          THEN fuzzy_result ELSE exact_result

\* C23 ExactMatcher without a cross-reference candidate: of the ledger txns
\* of the external txn's amount and currency within the timestamp tolerance,
\* exactly one gives a match on it with score 1.0, more than one give no
\* match with reason "Multiple exact amount matches found" and no
\* ledger_txn_id, none gives no match with reason "No exact match found".
Candidates ==
    {k \in 1..Len(matching.ledger_txns) :
        /\ matching.ledger_txns[k].amount = matching.external_txn.amount
        /\ matching.ledger_txns[k].currency = matching.external_txn.currency
        /\ matching.ledger_txns[k].timestamp - matching.external_txn.timestamp
              \in (0 - timestamp_tolerance_seconds)..timestamp_tolerance_seconds}

NoCrossReference ==
    \A k \in 1..Len(matching.ledger_txns) :
        /\ matching.ledger_txns[k].metadata.external_txn_id # matching.external_txn.txn_id
        /\ matching.ledger_txns[k].id # matching.external_txn.metadata.ledger_txn_id

C24_ScoreBounds ==
    \A k \in 1..Len(matching.scores) :
        /\ matching.scores[k].kind = "score"
        /\ matching.scores[k].value \in 0..MatchUnit
        /\ matching.ledger_txns[k].currency # matching.external_txn.currency
              => matching.scores[k].value = 0

\* C25 Score monotonicity: of two external txns put to one ledger txn, the
\* one whose amount is at least as near has an amount similarity at least as
\* high, and the one whose timestamp is at least as near has a timestamp
\* similarity at least as high.
C25_Monotonicity ==
    matching.sims # <<>>
        => LET l == matching.ledger_txns[1]
               e1 == matching.external_txn
               e2 == matching.other
           IN  /\ (e1.amount > 0 /\ e2.amount > 0
                   /\ Abs(e1.amount - l.amount) <= Abs(e2.amount - l.amount))
                     => /\ matching.sims[1].amount.kind = "score"
                        /\ matching.sims[2].amount.kind = "score"
                        /\ matching.sims[1].amount.value >= matching.sims[2].amount.value
               /\ (Abs(e1.timestamp - l.timestamp) <= Abs(e2.timestamp - l.timestamp))
                     => matching.sims[1].timestamp >= matching.sims[2].timestamp

\* C26 Scenario S5: FuzzyMatcher given one ledger txn of the external txn's
\* amount, timestamp and currency, with nothing in either metadata bag and no
\* description, scores 0.85 and returns a match.
ScenarioS5 ==
    /\ Len(matching.ledger_txns) = 1
    /\ matching.ledger_txns[1].amount = matching.external_txn.amount
    /\ matching.ledger_txns[1].timestamp = matching.external_txn.timestamp
    /\ matching.ledger_txns[1].currency = matching.external_txn.currency
    /\ matching.ledger_txns[1].metadata.external_txn_id = ""
    /\ matching.external_txn.metadata.ledger_txn_id = NoId
    /\ matching.external_txn.description = {}

C26_ScenarioS5 ==
    (ScenarioS5 /\ matching.fuzzy # NoMatchResult)
        => /\ matching.fuzzy.kind = "result"
           /\ matching.fuzzy.matched
           /\ matching.fuzzy.match_score = (85 * MatchUnit) \div 100
           /\ matching.fuzzy.ledger_txn_id = matching.ledger_txns[1].id

C26_Witness ==
    /\ ScenarioS5 /\ matching.fuzzy # NoMatchResult
    /\ matching.fuzzy.matched /\ matching.fuzzy.match_score = 45900

RaceOutcome ==
    [results |-> [t \in {1, 2} |-> Plain(pair.res[t])],
     balances |-> balances,
     events |-> Shapes(ledger_events \ pair.ledger_events)]

C28_DisjointTransfers ==
    /\ \A t \in {1, 2} : \A u \in Tasks : ~WaitsFor(t, u)
    /\ (pair.phase = "race" /\ pair.res[1].kind # "none" /\ pair.res[2].kind # "none")
          => \E f1, f2 \in BOOLEAN :
                /\ RaceOutcome = SerialOutcome(1, 2, f1, f2)
                /\ RaceOutcome = SerialOutcome(2, 1, f2, f1)

\* both transfers have succeeded, on accounts whose balances the setup had
\* moved
C28_Witness ==
    /\ pair.phase = "race"
    /\ pair.res[1].kind = "success" /\ pair.res[2].kind = "success"
    /\ pair.ledger_events # {}
    /\ \A a \in DisjointIds : balances[a].version > pair.balances[a].version

\* C29 Version monotonicity: in every step no balance row disappears and no
\* row's version decreases; the step in which a transfer commits raises by
\* exactly 1 the version of its source row and of its destination row (a row
\* the transfer itself inserts, because the account had none, starts at the
\* column default) and leaves the version of every other row alone.
C29_Step ==
    /\ \A a \in DOMAIN balances :
          /\ a \in DOMAIN balances'
          /\ balances'[a].version >= balances[a].version
    /\ \A t \in Tasks :
          (/\ IsTransfer(t) /\ task[t].pc = "commit"
           /\ task'[t].pc = "done" /\ task'[t].result.kind = "success")
          => LET own == {task[t].req.source_account_id, task[t].req.destination_account_id}
             IN  /\ own \subseteq DOMAIN balances'
                 /\ \A a \in own :
                       balances'[a].version =
                          IF a \in DOMAIN balances THEN balances[a].version + 1
                          ELSE DefaultVersion
                 /\ \A a \in DOMAIN balances \ own :
                       balances'[a].version = balances[a].version

C30_PendingZero ==
    /\ \A a \in DOMAIN balances : balances[a].pending = 0
    /\ \A t \in Tasks :
          /\ \A a \in DOMAIN task[t].writes : task[t].writes[a].pending = 0
          /\ \A i \in 1..Len(task[t].updates) : task[t].updates[i].pending_delta = 0

\* a committed transfer has moved the available balance of a row and its
\* pending is still 0
C30_Witness ==
    \E a \in DOMAIN balances :
        /\ balances[a].available # 0
        /\ balances[a].version > DefaultVersion
        /\ balances[a].pending = 0
        /\ \E e \in ledger_events : a \in {e.source_account_id, e.destination_account_id}

\* C31 Overdraft flag: a transfer gets past the funds check only from the
\* check itself, and then either allow_overdraft is on or the source's
\* available balance as read in its transaction is >= amount; with
\* allow_overdraft on, a transfer that passed the validator never returns a
\* failure result (it commits, or the storage raises); events, upserts and
\* the commit are reached only through the check.
C31_Step(t) ==
    LET r == task[t].req
        inside == {"funds", "events", "project", "commit"}
    IN  /\ (task[t].pc # "events" /\ task'[t].pc = "events")
              => /\ task[t].pc = "funds"
                 /\ \/ allow_overdraft
                    \/ /\ r.source_account_id \in DOMAIN View(t)
                       /\ View(t)[r.source_account_id].available >= r.amount
        /\ (task[t].pc = "funds" /\ allow_overdraft /\ task'[t].pc # "funds")
              => \/ task'[t].pc = "events"
                 \/ task'[t].pc = "done" /\ task'[t].result.kind = "exception"
        /\ (task[t].pc \in inside /\ allow_overdraft /\ task'[t].pc = "done")
              => task'[t].result.kind \in {"success", "exception"}
        /\ (task[t].pc # "project" /\ task'[t].pc = "project") => task[t].pc = "events"
        /\ (task[t].pc # "commit" /\ task'[t].pc = "commit") => task[t].pc = "project"
        /\ (task[t].pc # "done" /\ task'[t].pc = "done" /\ task'[t].result.kind = "success")
              => task[t].pc = "commit"

C31_OverdraftFlag == [][\A t \in Tasks : C31_Step(t)]_vars

\* with allow_overdraft on a transfer has committed and left its source
\* below zero
C31_Witness ==
    /\ allow_overdraft
    /\ \E t \in Tasks :
          /\ task[t].pc = "done" /\ task[t].result.kind = "success"
          /\ task[t].req.source_account_id \in DOMAIN balances
          /\ balances[task[t].req.source_account_id].available < 0

\* C32 Positive amounts: every external txn a source loader has produced
\* and the run hands to the matchers has amount > 0.
C32_PositiveAmounts ==
    matching.pc \in {"ledger", "rows", "completed"}
       => \A k \in 1..Len(matching.external_txns) : matching.external_txns[k].amount > 0

\* C33 Cross-reference precedence: when some ledger txn of the list names
\* the external txn in its metadata, or is named by the external txn's
\* metadata, the first such ledger txn is the one ExactMatcher reports on;
\* the result is unmatched with the amount reason if the amounts differ,
\* else with the currency reason if the currencies differ, else with the
\* timestamp reason if the times are further apart than the tolerance, and
\* matched with score 1.0 otherwise, whatever the other ledger txns are.
CrossReferenced ==
    {k \in 1..Len(matching.ledger_txns) :
        \/ matching.ledger_txns[k].metadata.external_txn_id = matching.external_txn.txn_id
        \/ /\ matching.external_txn.metadata.ledger_txn_id # NoId
           /\ matching.external_txn.metadata.ledger_txn_id = matching.ledger_txns[k].id}

C33_CrossReference ==
    (Len(matching.exact) >= 1 /\ CrossReferenced # {})
       => LET first == CHOOSE k \in CrossReferenced : \A h \in CrossReferenced : k <= h
              l == matching.ledger_txns[first]
              e == matching.external_txn
              result == matching.exact[1]
              apart == Abs(l.timestamp - e.timestamp)
          IN  /\ result.ledger_txn_id = l.id
              /\ IF e.amount # l.amount
                 THEN /\ ~result.matched /\ result.match_score = 0
                      /\ result.mismatch_reason[1] = "Amount mismatch: external="
                 ELSE IF e.currency # l.currency
                 THEN /\ ~result.matched /\ result.match_score = 0
                      /\ result.mismatch_reason[1] = "Currency mismatch: external="
                 ELSE IF apart > timestamp_tolerance_seconds
                 THEN /\ ~result.matched /\ result.match_score = 0
                      /\ result.mismatch_reason[1] = "Timestamp outside tolerance: diff="
                 ELSE result.matched /\ result.match_score = MatchUnit

\* the external txn names a ledger txn of another amount while another
\* ledger txn has its amount, currency and time: the result is unmatched
C33_Witness ==
    /\ Len(matching.exact) >= 1
    /\ CrossReferenced # {}
    /\ ~matching.exact[1].matched
    /\ matching.external_txn.metadata.ledger_txn_id # NoId
    /\ \E k \in 1..Len(matching.ledger_txns) :
          /\ k \notin CrossReferenced
          /\ matching.ledger_txns[k].amount = matching.external_txn.amount
          /\ matching.ledger_txns[k].currency = matching.external_txn.currency
          /\ matching.ledger_txns[k].timestamp = matching.external_txn.timestamp

\* C34 Fuzzy selection: a result of FuzzyMatcher carries the highest of the
\* scores of the ledger txns it was given and the id of the first ledger txn
\* in list order that has that score, and is matched exactly when that score
\* is >= min_match_score; when no ledger txn scores above 0 (or the list is
\* empty) the result is unmatched with score 0 and no ledger_txn_id.
C34_FuzzySelection ==
    (matching.pc \in {"cascade", "compare", "end"} /\ matching.fuzzy.kind = "result")
       => LET places == 1..Len(matching.ledger_txns)
              value(k) == matching.scores[k].value
              top == {k \in places : \A h \in places : value(h) <= value(k)}
              result == matching.fuzzy
          IN  IF \A k \in places : value(k) = 0
              THEN /\ ~result.matched
                   /\ result.match_score = 0
                   /\ result.ledger_txn_id = NoId
              ELSE LET first == CHOOSE k \in top : \A h \in top : k <= h
                   IN  /\ result.ledger_txn_id = matching.ledger_txns[first].id
                       /\ result.match_score = value(first)
                       /\ result.matched <=> value(first) >= min_match_score

\* two ledger txns share the highest score, which reaches the threshold
C34_Witness ==
    /\ matching.pc \in {"cascade", "compare", "end"}
    /\ matching.fuzzy.kind = "result"
    /\ matching.fuzzy.matched
    /\ Len(matching.ledger_txns) >= 2
    /\ matching.scores[1].value = matching.scores[2].value
    /\ matching.fuzzy.match_score = matching.scores[1].value

\* C35 Exact results: every matched result of ExactMatcher has score 1.0 and
\* refers to a ledger txn of the list with the external txn's amount
\* (amount_diff = 0) and currency, at most timestamp_tolerance_seconds away
\* from it in time, whether it was found by cross-reference or by amount.
C35_ExactResult ==
    \A n \in 1..Len(matching.exact) :
        matching.exact[n].matched
           => LET result == matching.exact[n]
                  e == matching.external_txn
              IN  /\ result.match_score = MatchUnit
                  /\ result.amount_diff = 0
                  /\ Abs(result.timestamp_diff_seconds) <= timestamp_tolerance_seconds
                  /\ \E k \in 1..Len(matching.ledger_txns) :
                        LET l == matching.ledger_txns[k]
                        IN  /\ l.id = result.ledger_txn_id
                            /\ l.amount = e.amount
                            /\ l.currency = e.currency
                            /\ result.timestamp_diff_seconds = e.timestamp - l.timestamp

\* a cross-referenced ledger txn at the edge of the tolerance has matched
C35_Witness ==
    /\ Len(matching.exact) >= 1
    /\ matching.exact[1].matched
    /\ CrossReferenced # {}
    /\ Abs(matching.exact[1].timestamp_diff_seconds) = timestamp_tolerance_seconds

\* C36 Success means committed: the step in which a transfer returns
\* success is the step that commits its transaction: the DEBIT and the
\* CREDIT event of its transaction_id enter the event log and its source and
\* destination rows change by the amount in that step; a transfer that has
\* reached the commit and does not commit returns an exception and changes
\* neither table.
C36_Step(t) ==
    LET r == task[t].req
        tid == task'[t].result.transaction_id
        ends == IsTransfer(t) /\ task[t].pc # "done" /\ task'[t].pc = "done"
        before(a) == IF a \in DOMAIN balances THEN balances[a].available ELSE 0
    IN  /\ (ends /\ task'[t].result.kind = "success")
              => /\ tid # 0
                 /\ EventsOf(ledger_events, tid) = {}
                 /\ {e.event_type : e \in EventsOf(ledger_events', tid)} = {"DEBIT", "CREDIT"}
                 /\ Cardinality(EventsOf(ledger_events', tid)) = 2
                 /\ {r.source_account_id, r.destination_account_id} \subseteq DOMAIN balances'
                 /\ balances'[r.source_account_id].available
                       = before(r.source_account_id) - r.amount
                 /\ balances'[r.destination_account_id].available
                       = before(r.destination_account_id) + r.amount
        /\ (ends /\ task[t].pc = "commit" /\ task'[t].result.kind # "success")
              => /\ task'[t].result.kind = "exception"
                 /\ ledger_events' = ledger_events
                 /\ balances' = balances

C36_SuccessCommitted == [][\A t \in Tasks : C36_Step(t)]_vars

\* a transfer has returned success; its two events and the credited amount
\* are in the committed tables
C36_Witness ==
    \E t \in Tasks :
        /\ task[t].pc = "done" /\ IsTransfer(t) /\ task[t].result.kind = "success"
        /\ Cardinality(EventsOf(ledger_events, task[t].result.transaction_id)) = 2
        /\ task[t].req.destination_account_id \in DOMAIN balances
        /\ balances[task[t].req.destination_account_id].available > 0

\* C37 No deadlock: no transfer is ever part of a cycle of transfers each
\* waiting for a balance row another of them has locked.
C37_NoDeadlock == \A t \in Tasks : ~InDeadlock(t)

\* C38 End to end: when the ledger of the date holds exactly one transfer
\* and an external txn without cross-reference has the transfer's amount and
\* currency and a timestamp within timestamp_tolerance_seconds of it, the
\* row the run writes for that external txn is an exact match of score 1.0.
C38_EndToEnd ==
    \A k \in 1..Len(matching.journal) :
        LET e == matching.external_txns[k]
            stored == matching.stored
        IN  (/\ Len(stored) = 2
             /\ stored[1].transaction_id = stored[2].transaction_id
             /\ e.metadata.ledger_txn_id = NoId
             /\ \A n \in 1..2 :
                   /\ e.amount = stored[n].amount
                   /\ e.currency = stored[n].currency
                   /\ Abs(e.timestamp - stored[n].timestamp) <= timestamp_tolerance_seconds)
            => /\ matching.journal[k].matched
               /\ matching.journal[k].match_score = MatchUnit
               /\ matching.journal[k].metadata.match_criteria = "ExactMatcher"

\* C39 No ledger txn matched twice: among the rows one run writes with
\* matched = true, no two carry the same ledger_txn_id.
C39_MatchedOnce ==
    \A j, k \in 1..Len(matching.journal) :
        (j # k /\ matching.journal[j].matched /\ matching.journal[k].matched)
           => matching.journal[j].ledger_txn_id # matching.journal[k].ledger_txn_id

\* C40 Journal agrees with the job row: for every job in a terminal state
\* the recon_logs rows of its (job_date, source_name) number matched_count +
\* unmatched_count, and those with matched = true number matched_count.
LogsOf(job_date, source_name, matched_only) ==
    LET rows == {row \in BagToSet(recon_logs) :
                    /\ row.recon_date = job_date /\ row.source_name = source_name
                    /\ (matched_only => row.matched)}
    IN  BagCardinality([row \in rows |-> recon_logs[row]])

C40_JournalAgrees ==
    \A j \in recon_jobs :
        j.status \in {COMPLETED, FAILED}
           => /\ LogsOf(j.job_date, j.source_name, FALSE) = j.matched_count + j.unmatched_count
              /\ LogsOf(j.job_date, j.source_name, TRUE) = j.matched_count

====
